---- MODULE Spec2Model ----
(***************************************************************************)
(* A model of rds-cli's Safety Gate: the query validator                   *)
(* (src/src/validator.rs) and the query / run commands that call it        *)
(* (src/src/main.rs).                                                      *)
(*                                                                         *)
(* Representation.                                                         *)
(*  - A String that the code compares character by character (statement   *)
(*    classes, allowed_operations entries) is a sequence of one-character  *)
(*    strings.                                                             *)
(*  - SQL text is a sequence of lexemes (tokens).  A token is a record     *)
(*    [k, d]: k names the lexeme, d holds the decimal digits of a numeric  *)
(*    literal (<<>> otherwise).  A statement head such as "SELECT" stands  *)
(*    for the statement's text up to its LIMIT/OFFSET clause.  Whitespace  *)
(*    (" ") and the semicolon are tokens of their own, so trimming and     *)
(*    appending act on the text as the code's string operations do.        *)
(*  - A u64 is kept as its canonical decimal digit sequence, because its   *)
(*    range exceeds the checker's integers; parsing and comparison are     *)
(*    defined on digit sequences with the 64-bit limit kept.               *)
(***************************************************************************)
EXTENDS Integers, Sequences, FiniteSets, TLC

(* ------------------------------ bounds --------------------------------- *)

\* default_limit and max_limit of a policy range over 0..MaxLimit.
MaxLimit == 1

\* A batch of the general kind holds at most MaxStmts statements.
MaxStmts == 2

(* ------------------------------ strings -------------------------------- *)

Upper == <<"A","B","C","D","E","F","G","H","I","J","K","L","M",
           "N","O","P","Q","R","S","T","U","V","W","X","Y","Z">>

Lower == <<"a","b","c","d","e","f","g","h","i","j","k","l","m",
           "n","o","p","q","r","s","t","u","v","w","x","y","z">>

UpperSet == {Upper[i] : i \in 1..Len(Upper)}
LowerOf == [c \in UpperSet |-> Lower[CHOOSE i \in 1..Len(Upper) : Upper[i] = c]]

\* u8::to_ascii_lowercase
to_ascii_lowercase(c) == IF c \in UpperSet THEN LowerOf[c] ELSE c

\* str::eq_ignore_ascii_case
\* (a variant that accepts an entry that is a prefix of the class name)
eq_ignore_ascii_case_prefix(a, b) ==
    /\ Len(a) <= Len(b)
    /\ \A i \in 1..Len(a) : to_ascii_lowercase(a[i]) = to_ascii_lowercase(b[i])

eq_ignore_ascii_case(a, b) ==
    /\ Len(a) = Len(b)
    /\ \A i \in 1..Len(a) : to_ascii_lowercase(a[i]) = to_ascii_lowercase(b[i])

\* The class names of validate_statement_type.
SELECT   == <<"S","E","L","E","C","T">>
EXPLAIN  == <<"E","X","P","L","A","I","N">>
SHOW     == <<"S","H","O","W">>
INSERT   == <<"I","N","S","E","R","T">>
UPDATE   == <<"U","P","D","A","T","E">>
DELETE   == <<"D","E","L","E","T","E">>
CREATE   == <<"C","R","E","A","T","E">>
DROP     == <<"D","R","O","P">>
ALTER    == <<"A","L","T","E","R">>
TRUNCATE == <<"T","R","U","N","C","A","T","E">>

Classes == {SELECT, EXPLAIN, SHOW, INSERT, UPDATE, DELETE, CREATE, DROP,
            ALTER, TRUNCATE}

(* --------------------------- unsigned numbers -------------------------- *)

\* u64::MAX = 18446744073709551615
U64MaxDigits == <<1,8,4,4,6,7,4,4,0,7,3,7,0,9,5,5,1,6,1,5>>

\* u64::MAX + 1: the least literal that u64 parsing rejects
U64OverflowDigits == <<1,8,4,4,6,7,4,4,0,7,3,7,0,9,5,5,1,6,1,6>>

RECURSIVE StripLeadingZeros(_)
StripLeadingZeros(ds) ==
    IF Len(ds) > 1 /\ ds[1] = 0 THEN StripLeadingZeros(Tail(ds)) ELSE ds

\* a < b for canonical digit sequences
RECURSIVE LexLess(_, _)
LexLess(a, b) ==
    IF a = <<>> THEN FALSE
    ELSE IF a[1] # b[1] THEN a[1] < b[1]
    ELSE LexLess(Tail(a), Tail(b))

DigitsLess(a, b) ==
    \/ Len(a) < Len(b)
    \/ Len(a) = Len(b) /\ LexLess(a, b)

\* Display of an unsigned integer ("{}")
RECURSIVE NatToDigits(_)
NatToDigits(n) ==
    IF n < 10 THEN <<n>> ELSE NatToDigits(n \div 10) \o <<n % 10>>

\* Option<u64>
NoneU64 == [some |-> FALSE, v |-> <<>>]
SomeU64(ds) == [some |-> TRUE, v |-> ds]

\* str::parse::<u64>() followed by .ok(): ASCII digits, Err on overflow.
parse_u64(ds) ==
    LET c == StripLeadingZeros(ds) IN
    IF ds # <<>> /\ ~DigitsLess(U64MaxDigits, c) THEN SomeU64(c) ELSE NoneU64

(* ------------------------------ SQL text ------------------------------- *)

Tok(k) == [k |-> k, d |-> <<>>]
Num(ds) == [k |-> "num", d |-> ds]
SEMI == Tok(";")
SP == Tok(" ")
LIMIT == Tok("LIMIT")
OFFSET == Tok("OFFSET")
COMMA == Tok(",")

\* Option<String>
NoText == [some |-> FALSE, v |-> <<>>]
SomeText(t) == [some |-> TRUE, v |-> t]

(* --------------------- sqlparser: the parsed statements ---------------- *)

\* The leading lexemes of the statements of the model, and the
\* sqlparser::ast::Statement variant each one parses to.
Heads == {"SELECT", "EXPLAIN", "SHOW TABLES", "SHOW COLUMNS", "SHOW DATABASES",
          "INSERT", "UPDATE", "DELETE", "CREATE TABLE", "CREATE INDEX", "DROP",
          "ALTER TABLE", "TRUNCATE", "SET", "COMMIT"}

HeadVariant(k) ==
    CASE k = "SELECT"         -> "Query"
      [] k = "EXPLAIN"        -> "Explain"
      [] k = "SHOW TABLES"    -> "ShowTables"
      [] k = "SHOW COLUMNS"   -> "ShowColumns"
      [] k = "SHOW DATABASES" -> "ShowDatabases"
      [] k = "INSERT"         -> "Insert"
      [] k = "UPDATE"         -> "Update"
      [] k = "DELETE"         -> "Delete"
      [] k = "CREATE TABLE"   -> "CreateTable"
      [] k = "CREATE INDEX"   -> "CreateIndex"
      [] k = "DROP"           -> "Drop"
      [] k = "ALTER TABLE"    -> "AlterTable"
      [] k = "TRUNCATE"       -> "Truncate"
      [] k = "SET"            -> "Set"
      [] k = "COMMIT"         -> "Commit"

\* sqlparser::ast::Expr, as far as extract_number_from_expr tells them apart.
NoExpr == [e |-> "None", d |-> <<>>]
ExprTokens == {"num", "?", "NULL", "expr"}

parse_expr(t) ==
    CASE t.k = "num"  -> [e |-> "Number", d |-> t.d]
      [] t.k = "?"    -> [e |-> "Placeholder", d |-> <<>>]
      [] t.k = "NULL" -> [e |-> "Null", d |-> <<>>]
      [] t.k = "expr" -> [e |-> "BinaryOp", d |-> <<>>]

\* Option<LimitClause>: LimitOffset { limit: Option<Expr>, .. } and
\* OffsetCommaLimit { limit: Expr, .. }
NoLimitClause == [variant |-> "None", limit |-> NoExpr]
LimitOffset(limit) == [variant |-> "LimitOffset", limit |-> limit]
OffsetCommaLimit(limit) == [variant |-> "OffsetCommaLimit", limit |-> limit]

\* The statements whose text may carry a LIMIT/OFFSET clause: a query, and
\* the statements that wrap a query (the wrapped query's clause is not the
\* statement's own).
TakesClause == {"Query", "Explain", "Insert"}

Statement(variant, limit_clause) ==
    [variant |-> variant,
     limit_clause |-> IF variant = "Query" THEN limit_clause ELSE NoLimitClause]

\* Result<Vec<Statement>, ParserError>; diag is the lexeme the parser's
\* diagnostic names ("Expected: ..., found: <lexeme>"), "" when there is none.
ParseError == [ok |-> FALSE, statements |-> <<>>, diag |-> ""]
ParseErrorAt(found) == [ParseError EXCEPT !.diag = found]

supports_limit_comma(dialect) == dialect = "MySqlDialect"

IsExprAt(c, i) == c[i].k \in ExprTokens

\* Parser::parse_optional_limit_clause on the lexemes after the head:
\* [ok, clause].  LIMIT ALL is no limit.
parse_limit_clause(dialect, c) ==
    LET kinds == [i \in 1..Len(c) |-> c[i].k]
        bad == [ok |-> FALSE, clause |-> NoLimitClause]
        good(cl) == [ok |-> TRUE, clause |-> cl]
        lim(i) == IF c[i].k = "ALL" THEN NoExpr ELSE parse_expr(c[i])
        limOk(i) == c[i].k = "ALL" \/ IsExprAt(c, i)
    IN
    CASE Len(c) = 0 -> good(NoLimitClause)
      [] Len(c) = 2 /\ kinds[1] = "LIMIT" ->
            IF ~limOk(2) THEN bad
            ELSE IF c[2].k = "ALL" THEN good(NoLimitClause)
            ELSE good(LimitOffset(lim(2)))
      [] Len(c) = 2 /\ kinds[1] = "OFFSET" ->
            IF IsExprAt(c, 2) THEN good(LimitOffset(NoExpr)) ELSE bad
      [] Len(c) = 4 /\ kinds[1] = "LIMIT" /\ kinds[3] = "OFFSET" ->
            IF limOk(2) /\ IsExprAt(c, 4) THEN good(LimitOffset(lim(2))) ELSE bad
      [] Len(c) = 4 /\ kinds[1] = "OFFSET" /\ kinds[3] = "LIMIT" ->
            IF IsExprAt(c, 2) /\ limOk(4) THEN good(LimitOffset(lim(4))) ELSE bad
      [] Len(c) = 4 /\ kinds[1] = "LIMIT" /\ kinds[3] = "," ->
            IF supports_limit_comma(dialect) /\ IsExprAt(c, 2) /\ IsExprAt(c, 4)
            THEN good(OffsetCommaLimit(parse_expr(c[4])))
            ELSE bad
      [] OTHER -> bad

\* The tokenizer drops whitespace.
RECURSIVE Significant(_)
Significant(text) ==
    IF text = <<>> THEN <<>>
    ELSE IF Head(text).k = " " THEN Significant(Tail(text))
    ELSE <<Head(text)>> \o Significant(Tail(text))

\* The index of the next semicolon at or after i, Len(toks)+1 if none.
RECURSIVE NextSemi(_, _)
NextSemi(toks, i) ==
    IF i > Len(toks) \/ toks[i].k = ";" THEN i ELSE NextSemi(toks, i + 1)

\* Parser::parse_statements: empty statements between delimiters are
\* skipped; a statement runs to the next delimiter.
RECURSIVE parse_statements(_, _, _, _)
parse_statements(dialect, toks, i, acc) ==
    IF i > Len(toks) THEN [ok |-> TRUE, statements |-> acc, diag |-> ""]
    ELSE IF toks[i].k = ";" THEN parse_statements(dialect, toks, i + 1, acc)
    ELSE IF toks[i].k \notin Heads THEN ParseErrorAt(toks[i].k)
    ELSE
        LET j == NextSemi(toks, i)
            variant == HeadVariant(toks[i].k)
            c == SubSeq(toks, i + 1, j - 1)
            cl == parse_limit_clause(dialect, c)
        IN
        IF ~cl.ok \/ (c # <<>> /\ variant \notin TakesClause)
        THEN ParseErrorAt(c[1].k)
        ELSE parse_statements(dialect, toks, j,
                              Append(acc, Statement(variant, cl.clause)))

\* Parser::parse_sql(dialect, sql)
parse_sql(dialect, sql) == parse_statements(dialect, Significant(sql), 1, <<>>)

(* ------------------------------ validator ------------------------------ *)

\* anyhow errors of validate(), by kind, with the values their message shows.
NoErr == [kind |-> "None", class |-> <<>>, permitted |-> <<>>,
          requested |-> <<>>, max |-> 0, diag |-> ""]
SyntaxError == [NoErr EXCEPT !.kind = "SyntaxError"]
\* the ? on parse_sql: the parser's error, as it is
SyntaxErrorOf(parsed) == [SyntaxError EXCEPT !.diag = parsed.diag]
EmptyQuery == [NoErr EXCEPT !.kind = "EmptyQuery"]
UnsupportedStatement == [NoErr EXCEPT !.kind = "UnsupportedStatement"]
OperationNotAllowed(stmt_type, allowed) ==
    [NoErr EXCEPT !.kind = "OperationNotAllowed", !.class = stmt_type,
                  !.permitted = allowed]
LimitExceeded(user_limit, max_limit) ==
    [NoErr EXCEPT !.kind = "LimitExceeded", !.requested = user_limit,
                  !.max = max_limit]

\* Result<String>
Ok(text) == [ok |-> TRUE, sql |-> text, err |-> NoErr]
Err(e) == [ok |-> FALSE, sql |-> <<>>, err |-> e]

\* QueryValidator::new
QueryValidator(policy, db_type) ==
    [policy |-> policy,
     dialect |-> CASE db_type = "postgresql" -> "PostgreSqlDialect"
                   [] db_type = "mysql" -> "MySqlDialect"
                   [] OTHER -> "PostgreSqlDialect"]

\* (a variant whose catch-all arm names a class instead of failing)
StmtType_named(statement) ==
    CASE statement.variant = "Query" -> SELECT
      [] statement.variant = "Explain" -> EXPLAIN
      [] statement.variant \in {"ShowTables", "ShowColumns"} -> SHOW
      [] statement.variant = "Insert" -> INSERT
      [] statement.variant = "Update" -> UPDATE
      [] statement.variant = "Delete" -> DELETE
      [] statement.variant = "CreateTable" -> CREATE
      [] statement.variant = "Drop" -> DROP
      [] statement.variant = "AlterTable" -> ALTER
      [] statement.variant = "Truncate" -> TRUNCATE
      [] OTHER -> <<"U","N","S","U","P","P","O","R","T","E","D">>

\* The match of validate_statement_type: the class of a statement, <<>> for
\* the catch-all arm.
StmtType(statement) ==
    CASE statement.variant = "Query" -> SELECT
      [] statement.variant = "Explain" -> EXPLAIN
      [] statement.variant \in {"ShowTables", "ShowColumns"} -> SHOW
      [] statement.variant = "Insert" -> INSERT
      [] statement.variant = "Update" -> UPDATE
      [] statement.variant = "Delete" -> DELETE
      [] statement.variant = "CreateTable" -> CREATE
      [] statement.variant = "Drop" -> DROP
      [] statement.variant = "AlterTable" -> ALTER
      [] statement.variant = "Truncate" -> TRUNCATE
      [] OTHER -> <<>>

is_allowed(self, stmt_type) ==
    \E i \in 1..Len(self.policy.allowed_operations) :
        eq_ignore_ascii_case(self.policy.allowed_operations[i], stmt_type)

\* validate_statement_type: NoErr for Ok(()).
validate_statement_type(self, statement) ==
    LET stmt_type == StmtType(statement) IN
    IF stmt_type = <<>> THEN UnsupportedStatement
    ELSE IF ~is_allowed(self, stmt_type)
    THEN OperationNotAllowed(stmt_type, self.policy.allowed_operations)
    ELSE NoErr

\* (a variant that reads a limit that is no number as the limit 0)
extract_number_from_expr_lenient(expr) ==
    IF expr.e = "Number" THEN parse_u64(expr.d) ELSE SomeU64(<<0>>)

\* extract_number_from_expr
extract_number_from_expr(expr) ==
    IF expr.e = "Number" THEN parse_u64(expr.d) ELSE NoneU64

\* extract_limit_from_query
extract_limit_from_query(query) ==
    CASE query.limit_clause.variant = "LimitOffset" ->
            IF query.limit_clause.limit.e # "None"
            THEN extract_number_from_expr(query.limit_clause.limit)
            ELSE NoneU64
      [] query.limit_clause.variant = "OffsetCommaLimit" ->
            extract_number_from_expr(query.limit_clause.limit)
      [] OTHER -> NoneU64

\* extract_limit: the loop returns at the first Query statement.
extract_limit(statements) ==
    LET qs == {i \in 1..Len(statements) : statements[i].variant = "Query"} IN
    IF qs = {} THEN NoneU64
    ELSE extract_limit_from_query(
             statements[CHOOSE i \in qs : \A j \in qs : i <= j])

\* (a variant that strips one semicolon only)
strip_one_semicolon(text) ==
    IF text # <<>> /\ text[Len(text)] = SEMI
    THEN SubSeq(text, 1, Len(text) - 1)
    ELSE text

\* str::trim_end_matches(';')
RECURSIVE trim_end_matches_semicolon(_)
trim_end_matches_semicolon(text) ==
    IF text # <<>> /\ text[Len(text)] = SEMI
    THEN trim_end_matches_semicolon(SubSeq(text, 1, Len(text) - 1))
    ELSE text

\* format!("{} LIMIT {}", sql.trim_end_matches(';'), default_limit)
AppendLimit(text, default_limit) ==
    trim_end_matches_semicolon(text)
        \o <<SP, LIMIT, SP, Num(NatToDigits(default_limit))>>

\* (a variant that asks for some SELECT instead of only SELECTs)
is_select_any(statements) ==
    \E i \in 1..Len(statements) : statements[i].variant = "Query"

is_select(statements) ==
    \A i \in 1..Len(statements) : statements[i].variant = "Query"

\* (a variant whose bound is exclusive: a limit equal to max_limit fails)
apply_limit_policy_exclusive(self, sql, statements) ==
    IF ~is_select(statements) THEN Ok(sql)
    ELSE
        LET user_limit == extract_limit(statements) IN
        IF user_limit.some
        THEN IF ~DigitsLess(user_limit.v, NatToDigits(self.policy.max_limit))
             THEN Err(LimitExceeded(user_limit.v, self.policy.max_limit))
             ELSE Ok(sql)
        ELSE Ok(AppendLimit(sql, self.policy.default_limit))

\* apply_limit_policy
apply_limit_policy(self, sql, statements) ==
    IF ~is_select(statements) THEN Ok(sql)
    ELSE
        LET user_limit == extract_limit(statements) IN
        IF user_limit.some
        THEN IF DigitsLess(NatToDigits(self.policy.max_limit), user_limit.v)
             THEN Err(LimitExceeded(user_limit.v, self.policy.max_limit))
             ELSE Ok(sql)
        ELSE Ok(AppendLimit(sql, self.policy.default_limit))

\* (a variant that checks the first statement only)
FirstTypeError_first_only(self, statements) ==
    validate_statement_type(self, statements[1])

\* The for loop of validate: the error of the first statement that has one.
FirstTypeError(self, statements) ==
    LET bad == {i \in 1..Len(statements) :
                   validate_statement_type(self, statements[i]) # NoErr} IN
    IF bad = {} THEN NoErr
    ELSE validate_statement_type(
             self, statements[CHOOSE i \in bad : \A j \in bad : i <= j])

\* (a variant without the check for an empty batch)
validate_parsed_no_empty_check(self, sql, parsed) ==
    IF ~parsed.ok THEN Err(SyntaxErrorOf(parsed))
    ELSE LET e == FirstTypeError(self, parsed.statements) IN
         IF e # NoErr THEN Err(e)
         ELSE apply_limit_policy(self, sql, parsed.statements)

\* (a variant that applies the limit policy before the allow-list)
validate_parsed_limit_first(self, sql, parsed) ==
    IF ~parsed.ok THEN Err(SyntaxErrorOf(parsed))
    ELSE IF parsed.statements = <<>> THEN Err(EmptyQuery)
    ELSE LET limited == apply_limit_policy(self, sql, parsed.statements)
             e == FirstTypeError(self, parsed.statements) IN
         IF ~limited.ok THEN limited
         ELSE IF e # NoErr THEN Err(e)
         ELSE limited

\* QueryValidator::validate, after the parser returned
validate_parsed(self, sql, parsed) ==
    IF ~parsed.ok THEN Err(SyntaxErrorOf(parsed))
    ELSE IF parsed.statements = <<>> THEN Err(EmptyQuery)
    ELSE LET e == FirstTypeError(self, parsed.statements) IN
         IF e # NoErr THEN Err(e)
         ELSE apply_limit_policy(self, sql, parsed.statements)

\* QueryValidator::validate
validate(self, sql) == validate_parsed(self, sql, parse_sql(self.dialect, sql))

(* ------------------------------- inputs -------------------------------- *)

to_lowercase(str) == [i \in 1..Len(str) |-> to_ascii_lowercase(str[i])]

AllOperations == <<SELECT, EXPLAIN, SHOW, INSERT, UPDATE, DELETE, CREATE, DROP,
                   ALTER, TRUNCATE>>

\* The allowed_operations vectors of the policies of the model: empty, upper
\* and lower case, near misses of a class name, every class, and names of
\* statements outside the classes.
OperationLists ==
    { <<>>,
      <<SELECT>>,
      <<to_lowercase(SELECT)>>,
      <<SELECT, to_lowercase(EXPLAIN), SHOW>>,
      <<to_lowercase(DELETE), SELECT, INSERT>>,
      <<SubSeq(SELECT, 1, 5), SELECT \o <<"S">>, DROP>>,
      AllOperations \o << <<"S","E","T">>, <<"U","N","S","U","P","P","O","R","T","E","D">> >> }

Policies ==
    [default_limit : 0..MaxLimit, max_limit : 0..MaxLimit,
     timeout_seconds : {10}, allowed_operations : OperationLists]

\* Option<DatabaseProfile>: the profile the command line names, if the
\* configuration has it.
NoProfile == [some |-> FALSE, db_type |-> "", safety |-> CHOOSE p \in Policies : TRUE]
Profiles ==
    [some : {TRUE}, db_type : {"postgresql", "mysql", "sqlite"}, safety : Policies]

\* Literals of the texts: around the policy's limits, with a leading zero,
\* and around u64::MAX.
Literals ==
    {NatToDigits(n) : n \in 0..(MaxLimit + 1)}
        \cup {<<0, 1>>, U64MaxDigits, U64OverflowDigits}

EdgeLiterals == {NatToDigits(0), NatToDigits(MaxLimit + 1)}

SelectClauses ==
    {<<LIMIT, Num(n)>> : n \in Literals}
        \cup {<<LIMIT, Num(n), OFFSET, Num(<<7>>)>> : n \in EdgeLiterals}
        \cup {<<OFFSET, Num(<<7>>), LIMIT, Num(n)>> : n \in EdgeLiterals}
        \cup {<<LIMIT, Num(NatToDigits(MaxLimit + 1 - m)), COMMA, Num(NatToDigits(m))>> :
                 m \in {0, MaxLimit + 1}}
        \cup {<<LIMIT, Tok("?")>>, <<LIMIT, Tok("expr")>>, <<LIMIT, Tok("ALL")>>,
              <<LIMIT, Tok("NULL")>>, <<OFFSET, Num(<<7>>)>>}

\* The text of a statement: its head, then each lexeme of its clause after a
\* space.
RECURSIVE Spaced(_)
Spaced(c) == IF c = <<>> THEN <<>> ELSE <<SP, Head(c)>> \o Spaced(Tail(c))

StatementText(head, c) == <<Tok(head)>> \o Spaced(c)

SingleStatements ==
    {StatementText(h, <<>>) : h \in Heads}
        \cup {StatementText("SELECT", c) : c \in SelectClauses}
        \cup {StatementText("EXPLAIN", <<LIMIT, Num(NatToDigits(MaxLimit + 1))>>),
              StatementText("DROP", <<LIMIT, Num(<<0>>)>>),
              <<LIMIT, SP, Num(<<0>>)>>}

\* The statements of the batches of two and more.
BatchStatements ==
    {StatementText("SELECT", <<>>),
     StatementText("SELECT", <<LIMIT, Num(<<0>>)>>),
     StatementText("SELECT", <<LIMIT, Num(NatToDigits(MaxLimit + 1))>>),
     StatementText("DELETE", <<>>),
     StatementText("SHOW TABLES", <<>>),
     StatementText("SET", <<>>)}

RECURSIVE Join(_)
Join(texts) ==
    IF Len(texts) = 1 THEN texts[1]
    ELSE texts[1] \o <<SEMI, SP>> \o Join(Tail(texts))

Batches ==
    UNION {{Join(b) : b \in [1..n -> BatchStatements]} : n \in 2..MaxStmts}

\* What follows the last statement: nothing, semicolons, or a semicolon and
\* whitespace.
Tails == {<<>>, <<SEMI>>, <<SEMI, SEMI>>, <<SEMI, SP>>}
BatchTails == {<<>>, <<SEMI>>}

SqlTexts ==
    {b \o t : b \in {<<>>} \cup SingleStatements, t \in Tails}
        \cup {b \o t : b \in Batches, t \in BatchTails}

\* Saved queries of the run command: the template's text with ":n"
\* placeholders, and the names it requires.
NoSavedQuery == [some |-> FALSE, sql |-> <<>>, params |-> {}]
SavedQueries ==
    {[some |-> TRUE, sql |-> StatementText("SELECT", <<LIMIT, Tok(":n")>>),
      params |-> {"n"}],
     [some |-> TRUE, sql |-> StatementText("SELECT", <<LIMIT, Tok(":n")>>),
      params |-> {}],
     [some |-> TRUE, sql |-> StatementText("SELECT", <<>>) \o <<SEMI>>,
      params |-> {}],
     [some |-> TRUE, sql |-> StatementText("DELETE", <<>>),
      params |-> {}]}

\* The -a arguments of run: none, a well-formed key=value, or one without "=".
RunParams ==
    {<<>>, << [wellformed |-> FALSE, key |-> "n", value |-> <<>>] >>}
        \cup {<< [wellformed |-> TRUE, key |-> "n", value |-> <<Num(n)>>] >> :
                 n \in EdgeLiterals}
        \cup {<< [wellformed |-> TRUE, key |-> "n",
                  value |-> <<Num(<<0>>), SEMI, SP, Tok("DELETE")>>] >>}

QueryCommands ==
    [command : {"query"}, sql : SqlTexts, param : {<<>>}]
RunCommands ==
    [command : {"run"}, sql : {<<>>}, param : RunParams]

(* ------------------------------- the vault ------------------------------ *)

\* In the vault a string is the sequence of its UTF-8 bytes, a byte 0..255.
Byte == 0..255

\* "enc:", the prefix of an encrypted value
ENC_PREFIX == <<101, 110, 99, 58>>

\* const NONCE_SIZE
NONCE_SIZE == 12
\* [u8; 32], the key of ChaCha20Poly1305
KEY_SIZE == 32
\* the Poly1305 tag the cipher appends to the ciphertext
TAG_SIZE == 16

\* str::strip_prefix: Some(rest) or None
strip_prefix(text, prefix) ==
    IF Len(text) >= Len(prefix) /\ SubSeq(text, 1, Len(prefix)) = prefix
    THEN [some |-> TRUE, rest |-> SubSeq(text, Len(prefix) + 1, Len(text))]
    ELSE [some |-> FALSE, rest |-> <<>>]

\* str::starts_with
starts_with(text, prefix) == strip_prefix(text, prefix).some

\* The STANDARD alphabet of base64: A-Z a-z 0-9 + /, padded with =.
B64Pad == 61
B64Char(v) ==
    IF v < 26 THEN 65 + v
    ELSE IF v < 52 THEN 97 + (v - 26)
    ELSE IF v < 62 THEN 48 + (v - 52)
    ELSE IF v = 62 THEN 43 ELSE 47
B64Value(c) ==
    IF c >= 65 /\ c <= 90 THEN c - 65
    ELSE IF c >= 97 /\ c <= 122 THEN c - 97 + 26
    ELSE IF c >= 48 /\ c <= 57 THEN c - 48 + 52
    ELSE IF c = 43 THEN 62
    ELSE IF c = 47 THEN 63
    ELSE -1

\* (a variant that leaves the padding out)
BASE64_encode_no_pad(data) ==
    LET n == Len(data)
        b(k) == IF k <= n THEN data[k] ELSE 0
        symbol(i) ==
            LET g == (i - 1) \div 4
                j == (i - 1) % 4
                b1 == b(3 * g + 1)
                b2 == b(3 * g + 2)
                b3 == b(3 * g + 3)
            IN  IF j = 0 THEN B64Char(b1 \div 4)
                ELSE IF j = 1 THEN B64Char((b1 % 4) * 16 + (b2 \div 16))
                ELSE IF j = 2 THEN B64Char((b2 % 16) * 4 + (b3 \div 64))
                ELSE B64Char(b3 % 64)
    IN  [i \in 1..((4 * n + 2) \div 3) |-> symbol(i)]

\* BASE64.encode: three bytes give four symbols, the last group is padded.
BASE64_encode(data) ==
    LET n == Len(data)
        b(k) == IF k <= n THEN data[k] ELSE 0
        symbol(i) ==
            LET g == (i - 1) \div 4
                j == (i - 1) % 4
                b1 == b(3 * g + 1)
                b2 == b(3 * g + 2)
                b3 == b(3 * g + 3)
            IN  IF j = 0 THEN B64Char(b1 \div 4)
                ELSE IF j = 1 THEN B64Char((b1 % 4) * 16 + (b2 \div 16))
                ELSE IF j = 2
                THEN IF 3 * g + 2 > n THEN B64Pad
                     ELSE B64Char((b2 % 16) * 4 + (b3 \div 64))
                ELSE IF 3 * g + 3 > n THEN B64Pad
                     ELSE B64Char(b3 % 64)
    IN  [i \in 1..(4 * ((n + 2) \div 3)) |-> symbol(i)]

\* BASE64.decode: Err on a length that is no multiple of four, on a symbol
\* outside the alphabet, on padding anywhere but at the end, and on a last
\* symbol with bits that belong to no byte.
DecodeError == [ok |-> FALSE, data |-> <<>>]
BASE64_decode(text) ==
    LET n == Len(text)
        pad == IF n >= 2 /\ text[n] = B64Pad /\ text[n - 1] = B64Pad THEN 2
               ELSE IF n >= 1 /\ text[n] = B64Pad THEN 1
               ELSE 0
        v(i) == B64Value(text[i])
        last == n - pad
        trailing ==
            IF pad = 2 THEN v(last) % 16
            ELSE IF pad = 1 THEN v(last) % 4
            ELSE 0
        byte(i) ==
            LET g == (i - 1) \div 3
                k == (i - 1) % 3
                v1 == v(4 * g + 1)
                v2 == v(4 * g + 2)
                v3 == v(4 * g + 3)
                v4 == v(4 * g + 4)
            IN  IF k = 0 THEN v1 * 4 + (v2 \div 16)
                ELSE IF k = 1 THEN (v2 % 16) * 16 + (v3 \div 4)
                ELSE (v3 % 4) * 64 + v4
    IN  IF n % 4 # 0 THEN DecodeError
        ELSE IF \E i \in 1..last : v(i) = -1 THEN DecodeError
        ELSE IF trailing # 0 THEN DecodeError
        ELSE [ok |-> TRUE,
              data |-> [i \in 1..(3 * (n \div 4) - pad) |-> byte(i)]]

\* String::from_utf8: whether the bytes from position i on are well-formed
\* UTF-8 (one to four bytes a character, no overlong form, no surrogate).
Continuation(b) == b >= 128 /\ b <= 191
RECURSIVE is_utf8(_, _)
is_utf8(bytes, i) ==
    LET n == Len(bytes)
        b == bytes[i]
        c(k) == bytes[i + k]
    IN  IF i > n THEN TRUE
        ELSE IF b <= 127 THEN is_utf8(bytes, i + 1)
        ELSE IF b >= 194 /\ b <= 223
        THEN i + 1 <= n /\ Continuation(c(1)) /\ is_utf8(bytes, i + 2)
        ELSE IF b >= 224 /\ b <= 239
        THEN /\ i + 2 <= n
             /\ Continuation(c(1)) /\ Continuation(c(2))
             /\ (b = 224 => c(1) >= 160)
             /\ (b = 237 => c(1) <= 159)
             /\ is_utf8(bytes, i + 3)
        ELSE IF b >= 240 /\ b <= 244
        THEN /\ i + 3 <= n
             /\ Continuation(c(1)) /\ Continuation(c(2)) /\ Continuation(c(3))
             /\ (b = 240 => c(1) >= 144)
             /\ (b = 244 => c(1) <= 143)
             /\ is_utf8(bytes, i + 4)
        ELSE FALSE

\* rand::thread_rng().fill_bytes: n bytes of the generator in state rng. The
\* generator moves to the next state with every call and, up to the bound of
\* the model, gives no output twice.
fill_bytes(n, rng) == [i \in 1..n |-> (37 * rng + 11 * i) % 256]

\* The cipher. ChaCha20Poly1305 is a crate the program links; here it is a
\* stream cipher with a keyed checksum that has the two properties the
\* program relies on: decryption inverts encryption under the same key and
\* nonce, and the tag depends on the key, the nonce and every byte of the
\* ciphertext.
keystream(key, nonce, i) ==
    (key[((i - 1) % KEY_SIZE) + 1] + nonce[((i - 1) % NONCE_SIZE) + 1] + i) % 256
RECURSIVE WeightedSum(_, _)
WeightedSum(bytes, i) ==
    IF i > Len(bytes) THEN 0
    ELSE (i * bytes[i] + WeightedSum(bytes, i + 1)) % 65521
Tag(key, nonce, ciphertext) ==
    LET h == WeightedSum(key \o nonce \o ciphertext, 1)
    IN  [j \in 1..TAG_SIZE |->
            ((IF j % 2 = 1 THEN h % 256 ELSE h \div 256) + j) % 256]

\* Aead::encrypt: the ciphertext followed by the tag
cipher_encrypt(key, nonce, plaintext) ==
    LET ciphertext == [i \in 1..Len(plaintext) |->
                          (plaintext[i] + keystream(key, nonce, i)) % 256]
    IN  ciphertext \o Tag(key, nonce, ciphertext)

AeadError == [ok |-> FALSE, plaintext |-> <<>>]

\* (a variant that does not look at the tag)
cipher_decrypt_unverified(key, nonce, sealed) ==
    IF Len(sealed) < TAG_SIZE THEN AeadError
    ELSE LET n == Len(sealed) - TAG_SIZE
             ciphertext == SubSeq(sealed, 1, n)
         IN  [ok |-> TRUE,
              plaintext |-> [i \in 1..n |->
                  (ciphertext[i] + 256 - keystream(key, nonce, i)) % 256]]

\* Aead::decrypt: Err when the tag does not verify
cipher_decrypt(key, nonce, sealed) ==
    IF Len(sealed) < TAG_SIZE THEN AeadError
    ELSE LET n == Len(sealed) - TAG_SIZE
             ciphertext == SubSeq(sealed, 1, n)
             tag == SubSeq(sealed, n + 1, Len(sealed))
         IN  IF tag # Tag(key, nonce, ciphertext) THEN AeadError
             ELSE [ok |-> TRUE,
                   plaintext |-> [i \in 1..n |->
                       (ciphertext[i] + 256 - keystream(key, nonce, i)) % 256]]

\* Crypto::new
Crypto(key) == [cipher |-> key]

\* (a variant of encrypt whose nonce is left as initialised, all zero)
encrypt_fixed_nonce(self, plaintext, rng) ==
    LET nonce_bytes == [i \in 1..NONCE_SIZE |-> 0]
        ciphertext == cipher_encrypt(self.cipher, nonce_bytes, plaintext)
        result == nonce_bytes \o ciphertext
    IN  ENC_PREFIX \o BASE64_encode(result)

\* Crypto::encrypt, with the generator in state rng
encrypt(self, plaintext, rng) ==
    LET nonce_bytes == fill_bytes(NONCE_SIZE, rng)
        ciphertext == cipher_encrypt(self.cipher, nonce_bytes, plaintext)
        result == nonce_bytes \o ciphertext
    IN  ENC_PREFIX \o BASE64_encode(result)

\* The results of decrypt: the plaintext, or the error with its message.
DecryptOk(text) == [ok |-> TRUE, text |-> text, error |-> ""]
DecryptErr(message) == [ok |-> FALSE, text |-> <<>>, error |-> message]

\* (a variant without the check of the length against NONCE_SIZE)
decrypt_no_size_check(self, encrypted) ==
    LET stripped == strip_prefix(encrypted, ENC_PREFIX)
        decoded == BASE64_decode(stripped.rest)
        data == decoded.data
        nonce == SubSeq(data, 1, NONCE_SIZE)
        ciphertext == SubSeq(data, NONCE_SIZE + 1, Len(data))
        plaintext == cipher_decrypt(self.cipher, nonce, ciphertext)
    IN  IF ~stripped.some THEN DecryptErr("Invalid encrypted format")
        ELSE IF ~decoded.ok THEN DecryptErr("Invalid base64 encoding")
        ELSE IF ~plaintext.ok THEN DecryptErr("Decryption failed")
        ELSE IF ~is_utf8(plaintext.plaintext, 1)
        THEN DecryptErr("Invalid UTF-8 in decrypted data")
        ELSE DecryptOk(plaintext.plaintext)

\* Crypto::decrypt
decrypt(self, encrypted) ==
    LET stripped == strip_prefix(encrypted, ENC_PREFIX)
        decoded == BASE64_decode(stripped.rest)
        data == decoded.data
        nonce == SubSeq(data, 1, NONCE_SIZE)
        ciphertext == SubSeq(data, NONCE_SIZE + 1, Len(data))
        plaintext == cipher_decrypt(self.cipher, nonce, ciphertext)
    IN  IF ~stripped.some THEN DecryptErr("Invalid encrypted format")
        ELSE IF ~decoded.ok THEN DecryptErr("Invalid base64 encoding")
        ELSE IF Len(data) < NONCE_SIZE THEN DecryptErr("Invalid encrypted data")
        ELSE IF ~plaintext.ok THEN DecryptErr("Decryption failed")
        ELSE IF ~is_utf8(plaintext.plaintext, 1)
        THEN DecryptErr("Invalid UTF-8 in decrypted data")
        ELSE DecryptOk(plaintext.plaintext)

\* generate_key
generate_key(rng) == fill_bytes(KEY_SIZE, rng)

(* ---------------------------- state machine ---------------------------- *)

VARIABLES
    cli,            \* the parsed command line: command, sql or -a arguments
    config,         \* the loaded configuration: the profile and saved query
    pc,             \* the position of the command
    sql,            \* the argument of handle_query, once called
    validated_sql,  \* [called, result]: the result of validator.validate(sql)
    statements,     \* validate's local: what Parser::parse_sql gave for sql
    database,       \* "none", "created", "connected"
    executed        \* the calls of execute_query, in order: [sql, timeout_secs]

\* The state of the vault.
VARIABLES
    master_key,     \* the key Crypto::new was given
    rng,            \* the state of rand::thread_rng()
    tokens,         \* what encrypt returned, in order: [plaintext, key, token]
    encrypted,      \* the argument decrypt is about to get: [text, origin]
    decrypted,      \* [called, key, result]: the result of decrypt(encrypted)
    key_file,       \* the file .master.key: [exists, content, mode]
    password,       \* the password of the profile in .rds-cli.toml
    proc,           \* the processes: where each is in its command, its locals
    returned,       \* the keys get_or_create_master_key returned: [key, epoch]
    resets,         \* how often remove_file removed the key file
    commands,       \* how many commands were started
    call,           \* a function of the program called by itself: its arguments
    ret             \* [done, value]: what that call returned

gateVars == <<cli, config, pc, sql, validated_sql, statements, database, executed>>
cipherVars == <<master_key, rng, tokens, encrypted, decrypted>>
storeVars == <<key_file, password, proc, returned, resets, commands>>
pureVars == <<call, ret>>
vaultVars == <<cipherVars, storeVars, pureVars>>
vars == <<gateVars, vaultVars>>

NotValidated == [called |-> FALSE, result |-> Err(NoErr)]

\* The vault before any secret command: no key, nothing encrypted.
NoKey == <<>>
NotPresented == [text |-> <<>>, origin |-> [kind |-> "none", of |-> 0]]
NotDecrypted == [called |-> FALSE, key |-> NoKey, result |-> DecryptErr("")]
CipherIdle ==
    /\ master_key = NoKey
    /\ rng = 0
    /\ tokens = <<>>
    /\ encrypted = NotPresented
    /\ decrypted = NotDecrypted

\* The processes of the model, the file system without a key file, a
\* process that runs no command.
Procs == {1, 2}
NoKeyFile == [exists |-> FALSE, content |-> <<>>, mode |-> "none"]
IdleProc ==
    [pc |-> "idle", command |-> "none", caller |-> "none", exit |-> "none",
     key |-> NoKey, master_key |-> NoKey, crypto |-> NoKey,
     password |-> <<>>, error |-> "",
     connected |-> FALSE, credential |-> <<>>]
StoreIdle ==
    /\ key_file = NoKeyFile
    /\ password = <<>>
    /\ proc = [p \in Procs |-> IdleProc]
    /\ returned = <<>>
    /\ resets = 0
    /\ commands = 0

\* No function is called by itself.
NoCall == [fn |-> "none"]
NotReturned == [done |-> FALSE, value |-> <<>>]
PureIdle ==
    /\ call = NoCall
    /\ ret = NotReturned
VaultIdle == CipherIdle /\ StoreIdle /\ PureIdle

Init ==
    /\ \/ /\ cli \in QueryCommands
          /\ config \in [profile : Profiles \cup {NoProfile},
                         saved_query : {NoSavedQuery}]
       \/ /\ cli \in RunCommands
          /\ config \in [profile : Profiles \cup {NoProfile},
                         saved_query : SavedQueries \cup {NoSavedQuery}]
    /\ pc = "main"
    /\ sql = NoText
    /\ validated_sql = NotValidated
    /\ statements = ParseError
    /\ database = "none"
    /\ executed = <<>>
    /\ VaultIdle

\* String::replace(":key", value) on the text
RECURSIVE replace(_, _, _)
replace(text, key, value) ==
    IF text = <<>> THEN <<>>
    ELSE IF Head(text).k = key THEN value \o replace(Tail(text), key, value)
    ELSE <<Head(text)>> \o replace(Tail(text), key, value)

\* handle_run's substitution: every -a argument replaces its placeholder.
RECURSIVE Substitute(_, _)
Substitute(text, params) ==
    IF params = <<>> THEN text
    ELSE Substitute(replace(text, ":n", Head(params).value), Tail(params))

\* main: Command::Query { sql } => handle_query(sql, &cli)
Query ==
    /\ pc = "main"
    /\ cli.command = "query"
    /\ sql' = SomeText(cli.sql)
    /\ pc' = "handle_query"
    /\ UNCHANGED <<cli, config, validated_sql, statements, database, executed>>
    /\ UNCHANGED vaultVars

\* handle_run: look the saved query up, read the -a arguments, check the
\* required ones, substitute, and delegate to handle_query.
HandleRun ==
    /\ pc = "main"
    /\ cli.command = "run"
    /\ LET query_template == config.saved_query
           malformed == \E i \in 1..Len(cli.param) : ~cli.param[i].wellformed
           keys == {cli.param[i].key : i \in 1..Len(cli.param)}
           missing == \E required \in query_template.params : required \notin keys
       IN
       IF ~query_template.some \/ malformed \/ missing
       THEN /\ pc' = "failed"
            /\ sql' = sql
       ELSE /\ pc' = "handle_query"
            /\ sql' = SomeText(Substitute(query_template.sql, cli.param))
    /\ UNCHANGED <<cli, config, validated_sql, statements, database, executed>>
    /\ UNCHANGED vaultVars

\* (a variant that goes on to the database when validation failed)
Validate_unchecked ==
    /\ pc = "handle_query"
    /\ IF ~config.profile.some
       THEN /\ pc' = "failed"
            /\ validated_sql' = validated_sql
            /\ statements' = statements
       ELSE LET validator == QueryValidator(config.profile.safety,
                                            config.profile.db_type)
                parsed == parse_sql(validator.dialect, sql.v)
                result == validate_parsed(validator, sql.v, parsed)
            IN
            /\ validated_sql' = [called |-> TRUE, result |-> result]
            /\ statements' = parsed
            /\ pc' = "validated"
    /\ UNCHANGED <<cli, config, sql, database, executed>>
    /\ UNCHANGED vaultVars

\* handle_query, lines 226-230: the profile, then the validator.
Validate ==
    /\ pc = "handle_query"
    /\ IF ~config.profile.some
       THEN /\ pc' = "failed"
            /\ validated_sql' = validated_sql
            /\ statements' = statements
       ELSE LET validator == QueryValidator(config.profile.safety,
                                            config.profile.db_type)
                parsed == parse_sql(validator.dialect, sql.v)
                result == validate_parsed(validator, sql.v, parsed)
            IN
            /\ validated_sql' = [called |-> TRUE, result |-> result]
            /\ statements' = parsed
            /\ pc' = IF result.ok THEN "validated" ELSE "failed"
    /\ UNCHANGED <<cli, config, sql, database, executed>>
    /\ UNCHANGED vaultVars

\* db::create_database
create_database(db_type) == db_type \in {"postgresql", "mysql"}

\* handle_query, line 237
CreateDatabase ==
    /\ pc = "validated"
    /\ IF create_database(config.profile.db_type)
       THEN database' = "created" /\ pc' = "created"
       ELSE database' = database /\ pc' = "failed"
    /\ UNCHANGED <<cli, config, sql, validated_sql, statements, executed>>
    /\ UNCHANGED vaultVars

\* handle_query, line 238: the connection succeeds or fails.
Connect ==
    /\ pc = "created"
    /\ \E connected \in BOOLEAN :
          IF connected
          THEN database' = "connected" /\ pc' = "connected"
          ELSE database' = database /\ pc' = "failed"
    /\ UNCHANGED <<cli, config, sql, validated_sql, statements, executed>>
    /\ UNCHANGED vaultVars

\* handle_query, lines 240-242: the validated text goes to execute_query,
\* which succeeds or fails.
ExecuteQuery ==
    /\ pc = "connected"
    /\ executed' = Append(executed,
                          [sql |-> validated_sql.result.sql,
                           timeout_secs |-> config.profile.safety.timeout_seconds])
    /\ \E succeeded \in BOOLEAN : pc' = IF succeeded THEN "done" ELSE "failed"
    /\ UNCHANGED <<cli, config, sql, validated_sql, statements, database>>
    /\ UNCHANGED vaultVars

Next ==
    \/ Query
    \/ HandleRun
    \/ Validate
    \/ CreateDatabase
    \/ Connect
    \/ ExecuteQuery

Spec == Init /\ [][Next]_vars

(* ---------------------- the cipher as a state machine ------------------- *)

MaxTokens == 2

\* The commands other than query and run leave the gate where it is.
GateIdle ==
    /\ cli = [command |-> "secret", sql |-> <<>>, param |-> <<>>]
    /\ config = [profile |-> NoProfile, saved_query |-> NoSavedQuery]
    /\ pc = "main"
    /\ sql = NoText
    /\ validated_sql = NotValidated
    /\ statements = ParseError
    /\ database = "none"
    /\ executed = <<>>

\* The keys, in the order in which the program comes to hold them, and the
\* plaintexts: the empty string, "pw", and a string of one two-byte character.
Keys == <<generate_key(200), generate_key(201)>>
Plaintexts == {<<>>, <<112, 119>>, <<195, 169>>}
\* What is added to the byte that changes.
Deltas == {1}

\* Texts that are no output of encrypt: without the prefix, with the prefix
\* in upper case, with symbols outside the alphabet, with a length that is
\* no multiple of four, with misplaced padding, and with the prefix before
\* 0, 11 and 12 well-encoded bytes.
Malformed ==
    {<<>>, <<112, 119>>, <<33, 33>>,
     <<69, 78, 67, 58>> \o BASE64_encode(fill_bytes(40, 7)),
     BASE64_encode(fill_bytes(40, 7)),
     ENC_PREFIX \o <<33>>,
     ENC_PREFIX \o <<33, 33, 33, 33>>,
     ENC_PREFIX \o <<65, 65, 65>>,
     ENC_PREFIX \o <<65, 61, 65, 65>>,
     ENC_PREFIX \o <<65, 66, 61, 61>>,
     ENC_PREFIX \o BASE64_encode(fill_bytes(12, 7)) \o <<32>>,
     ENC_PREFIX,
     ENC_PREFIX \o BASE64_encode(fill_bytes(1, 7)),
     ENC_PREFIX \o BASE64_encode(fill_bytes(NONCE_SIZE - 1, 7)),
     ENC_PREFIX \o BASE64_encode(fill_bytes(NONCE_SIZE, 7)),
     ENC_PREFIX \o BASE64_encode(fill_bytes(NONCE_SIZE + TAG_SIZE, 7))}

\* A value sealed under a key of the program by another tool: its plaintext
\* is no UTF-8.
Foreign ==
    {ENC_PREFIX \o BASE64_encode(fill_bytes(NONCE_SIZE, 9)
        \o cipher_encrypt(Keys[k], fill_bytes(NONCE_SIZE, 9), <<255>>)) :
            k \in DOMAIN Keys}

CipherInit ==
    /\ GateIdle
    /\ StoreIdle
    /\ PureIdle
    /\ master_key = Keys[1]
    /\ rng = 0
    /\ tokens = <<>>
    /\ \/ encrypted = NotPresented
       \/ \E text \in Malformed :
             encrypted = [text |-> text,
                          origin |-> [kind |-> "malformed", of |-> 0]]
       \/ \E text \in Foreign :
             encrypted = [text |-> text,
                          origin |-> [kind |-> "foreign", of |-> 0]]
    /\ decrypted = NotDecrypted

\* No decrypt is under way.
NoDecryptPending == encrypted.origin.kind = "none" \/ decrypted.called

\* Crypto::new(&master_key), with the key that follows the one before
CryptoNew ==
    /\ NoDecryptPending
    /\ \E k \in DOMAIN Keys :
          /\ k > 1 /\ master_key = Keys[k - 1]
          /\ master_key' = Keys[k]
    /\ UNCHANGED <<gateVars, pureVars, storeVars, rng, tokens, encrypted, decrypted>>

\* crypto.encrypt(plaintext)
Encrypt ==
    /\ NoDecryptPending
    /\ Len(tokens) < MaxTokens
    /\ \E plaintext \in Plaintexts :
          tokens' = Append(tokens,
                           [plaintext |-> plaintext, key |-> master_key,
                            token |-> encrypt(Crypto(master_key), plaintext, rng)])
    /\ rng' = rng + 1
    /\ UNCHANGED <<gateVars, pureVars, storeVars, master_key, encrypted, decrypted>>

\* The value decrypt is to get next: one that encrypt returned. (The value
\* the run starts with is none, or a text that encrypt did not return.)
Present ==
    /\ NoDecryptPending
    /\ \E i \in 1..Len(tokens) :
          encrypted' = [text |-> tokens[i].token,
                        origin |-> [kind |-> "token", of |-> i]]
    /\ decrypted' = NotDecrypted
    /\ UNCHANGED <<gateVars, pureVars, storeVars, master_key, rng, tokens>>

\* One byte of the nonce, the ciphertext or the tag of a stored value changes
\* before the value is read back.
Alter ==
    /\ encrypted.origin.kind = "token"
    /\ ~decrypted.called
    /\ LET data == BASE64_decode(strip_prefix(encrypted.text, ENC_PREFIX).rest).data
       IN  \E pos \in 1..Len(data), delta \in Deltas :
              encrypted' =
                  [text |-> ENC_PREFIX \o BASE64_encode(
                                [data EXCEPT ![pos] = (data[pos] + delta) % 256]),
                   origin |-> [kind |-> "altered", of |-> encrypted.origin.of]]
    /\ UNCHANGED <<gateVars, pureVars, storeVars, master_key, rng, tokens, decrypted>>

\* crypto.decrypt(encrypted)
Decrypt ==
    /\ encrypted.origin.kind # "none"
    /\ ~decrypted.called
    /\ decrypted' = [called |-> TRUE, key |-> master_key,
                     result |-> decrypt(Crypto(master_key), encrypted.text)]
    /\ UNCHANGED <<gateVars, pureVars, storeVars, master_key, rng, tokens, encrypted>>

CipherNext ==
    \/ CryptoNew
    \/ Encrypt
    \/ Present
    \/ Alter
    \/ Decrypt

CipherSpec == CipherInit /\ [][CipherNext]_vars

(* --------------------- the master key as a state machine ---------------- *)

MaxCommands == 3

\* str::trim
IsWhitespace(b) == b \in {9, 10, 11, 12, 13, 32}
trim(text) ==
    LET keep == {i \in 1..Len(text) : ~IsWhitespace(text[i])}
    IN  IF keep = {} THEN <<>>
        ELSE SubSeq(text,
                    CHOOSE i \in keep : \A j \in keep : i <= j,
                    CHOOSE i \in keep : \A j \in keep : i >= j)

\* The mode of a file that fs::write creates (0o666 less the umask), and the
\* mode get_or_create_master_key sets.
DefaultMode == "0666 & !umask"
OwnerOnly == "0600"

\* The key file before the first command: none, a key stored earlier and
\* ending in a newline, a text that is no base64, sixteen bytes, and a
\* content that read_to_string cannot read (no UTF-8).
InitialKeyFiles ==
    {NoKeyFile,
     [exists |-> TRUE, content |-> BASE64_encode(Keys[1]) \o <<10>>,
      mode |-> OwnerOnly],
     [exists |-> TRUE, content |-> <<33, 33, 33, 33>>, mode |-> OwnerOnly],
     [exists |-> TRUE, content |-> BASE64_encode(fill_bytes(16, 3)),
      mode |-> OwnerOnly],
     [exists |-> TRUE, content |-> <<255>>, mode |-> OwnerOnly]}

\* The commands: a command that loads the configuration and connects to the
\* database (query, run, schema, ...) and the four actions of secret.
SecretCommands == {"set", "get", "remove", "reset"}
AllCommands == {"load"} \cup SecretCommands
\* The password that secret set reads.
Passwords == {<<112, 119>>}

StoreInit ==
    /\ GateIdle
    /\ CipherIdle
    /\ PureIdle
    /\ key_file \in InitialKeyFiles
    /\ password = <<>>
    /\ proc = [p \in Procs |-> IdleProc]
    /\ returned = <<>>
    /\ resets = 0
    /\ commands = 0

\* Two processes and no key file.
RaceInit ==
    /\ GateIdle
    /\ VaultIdle

\* (a variant in which secret reset goes to reset_master_key at once)
Start_reset_first(p, cmds) ==
    /\ proc[p].pc = "idle"
    /\ commands < MaxCommands
    /\ \E command \in cmds :
          proc' = [proc EXCEPT ![p] =
                      [IdleProc EXCEPT
                          !.pc = IF command = "reset" THEN "reset" ELSE "exists",
                          !.command = command,
                          !.caller = IF command = "load" THEN "load_env_vars"
                                     ELSE "handle_secret"]]
    /\ commands' = commands + 1
    /\ UNCHANGED <<gateVars, pureVars, cipherVars, key_file, password, returned, resets>>

\* main: the command starts. A secret command calls
\* get_or_create_master_key itself (handle_secret), any other command gets
\* to it through ApplicationConfig::load and load_env_vars.
Start(p, cmds) ==
    /\ proc[p].pc = "idle"
    /\ commands < MaxCommands
    /\ \E command \in cmds :
          proc' = [proc EXCEPT ![p] =
                      [IdleProc EXCEPT
                          !.pc = "exists",
                          !.command = command,
                          !.caller = IF command = "load" THEN "load_env_vars"
                                     ELSE "handle_secret"]]
    /\ commands' = commands + 1
    /\ UNCHANGED <<gateVars, pureVars, cipherVars, key_file, password, returned, resets>>

\* get_or_create_master_key returns to its caller: handle_secret gives an
\* error up with ?, load_env_vars turns it into None.
Returns(p, ok, k, message) ==
    /\ returned' = IF ok THEN Append(returned, [key |-> k, epoch |-> resets])
                   ELSE returned
    /\ LET self == proc[p] IN
       proc' = [proc EXCEPT ![p] =
          IF self.caller = "load_env_vars"
          THEN [self EXCEPT !.pc = "load_env_vars",
                            !.crypto = IF ok THEN k ELSE NoKey]
          ELSE IF ~ok
          THEN [self EXCEPT !.pc = "idle", !.exit = "failed",
                            !.error = message]
          ELSE IF self.command = "get_or_create_master_key"
          THEN [self EXCEPT !.pc = "idle", !.exit = "ok", !.master_key = k]
          ELSE [self EXCEPT !.pc = self.command, !.master_key = k]]

\* (a variant that takes the file for absent)
Exists_never(p) ==
    /\ proc[p].pc = "exists"
    /\ proc' = [proc EXCEPT ![p].pc = "generate"]
    /\ UNCHANGED <<gateVars, pureVars, cipherVars, key_file, password, returned, resets,
                   commands>>

\* get_or_create_master_key: if key_path.exists()
Exists(p) ==
    /\ proc[p].pc = "exists"
    /\ proc' = [proc EXCEPT ![p].pc =
                    IF key_file.exists THEN "read" ELSE "generate"]
    /\ UNCHANGED <<gateVars, pureVars, cipherVars, key_file, password, returned, resets,
                   commands>>

\* (a variant that makes a new key when the stored one is of no use)
Read_regenerates(p) ==
    /\ proc[p].pc = "read"
    /\ LET encoded == key_file.content
           decoded == BASE64_decode(trim(encoded))
       IN  IF ~key_file.exists \/ ~is_utf8(encoded, 1) \/ ~decoded.ok
              \/ Len(decoded.data) # 32
           THEN /\ proc' = [proc EXCEPT ![p].pc = "generate"]
                /\ returned' = returned
           ELSE Returns(p, TRUE, decoded.data, "")
    /\ UNCHANGED <<gateVars, pureVars, cipherVars, key_file, password, resets, commands>>

\* get_or_create_master_key: the file is read, decoded and measured.
Read(p) ==
    /\ proc[p].pc = "read"
    /\ LET encoded == key_file.content
           decoded == BASE64_decode(trim(encoded))
       IN  IF ~key_file.exists \/ ~is_utf8(encoded, 1)
           THEN Returns(p, FALSE, NoKey, "Failed to read master key")
           ELSE IF ~decoded.ok
           THEN Returns(p, FALSE, NoKey, "Invalid master key encoding")
           ELSE IF Len(decoded.data) # 32
           THEN Returns(p, FALSE, NoKey, "Invalid master key size")
           ELSE Returns(p, TRUE, decoded.data, "")
    /\ UNCHANGED <<gateVars, pureVars, cipherVars, key_file, password, resets, commands>>

\* get_or_create_master_key: let key = crypto::generate_key()
Generate(p) ==
    /\ proc[p].pc = "generate"
    /\ proc' = [proc EXCEPT ![p].pc = "create", ![p].key = generate_key(rng)]
    /\ rng' = rng + 1
    /\ UNCHANGED <<gateVars, pureVars, master_key, tokens, encrypted, decrypted,
                   key_file, password, returned, resets, commands>>

\* fs::write, first half: the file is opened, created if there is none and
\* emptied if there is one.
Create(p) ==
    /\ proc[p].pc = "create"
    /\ key_file' = [exists |-> TRUE, content |-> <<>>,
                    mode |-> IF key_file.exists THEN key_file.mode
                             ELSE DefaultMode]
    /\ proc' = [proc EXCEPT ![p].pc = "write"]
    /\ UNCHANGED <<gateVars, pureVars, cipherVars, password, returned, resets, commands>>

\* fs::write, second half: the encoded key goes into the file.
WriteAll(p) ==
    /\ proc[p].pc = "write"
    /\ key_file' = IF key_file.exists
                   THEN [key_file EXCEPT !.content = BASE64_encode(proc[p].key)]
                   ELSE key_file
    /\ proc' = [proc EXCEPT ![p].pc = "set_permissions"]
    /\ UNCHANGED <<gateVars, pureVars, cipherVars, password, returned, resets, commands>>

\* get_or_create_master_key: the mode becomes 0o600 and the key is returned.
SetPermissions(p) ==
    /\ proc[p].pc = "set_permissions"
    /\ IF key_file.exists
       THEN /\ key_file' = [key_file EXCEPT !.mode = OwnerOnly]
            /\ Returns(p, TRUE, proc[p].key, "")
       ELSE /\ key_file' = key_file
            /\ Returns(p, FALSE, NoKey, "No such file or directory")
    /\ UNCHANGED <<gateVars, pureVars, cipherVars, password, resets, commands>>

\* The value of the profile's DB_PASSWORD_<NAME>: not set, or a password.
EnvPasswords == {NoText, SomeText(<<101, 118>>)}

\* (a variant that gives the errors of the key and of decrypt up)
LoadEnvVars_strict(p) ==
    /\ proc[p].pc = "load_env_vars"
    /\ \E env \in EnvPasswords :
          LET result == decrypt(Crypto(proc[p].crypto), password) IN
          proc' = [proc EXCEPT ![p] =
             IF proc[p].crypto = NoKey
             THEN [@ EXCEPT !.pc = "idle", !.exit = "failed",
                            !.error = "Failed to read master key"]
             ELSE IF starts_with(password, ENC_PREFIX) /\ ~result.ok
             THEN [@ EXCEPT !.pc = "idle", !.exit = "failed",
                            !.error = result.error]
             ELSE [@ EXCEPT !.pc = IF @.command = "get" THEN "get_password"
                                   ELSE "connect",
                            !.password =
                                IF starts_with(password, ENC_PREFIX)
                                THEN result.text
                                ELSE IF env.some THEN env.v ELSE password]]
    /\ UNCHANGED <<gateVars, pureVars, cipherVars, key_file, password, returned, resets,
                   commands>>

\* load_env_vars: a password that starts with "enc:" is replaced by its
\* plaintext when there is a key and decrypt succeeds, and left as it is
\* otherwise; any other password is replaced by DB_PASSWORD_<NAME> when that
\* is set. With that ApplicationConfig::load returns.
LoadEnvVars(p) ==
    /\ proc[p].pc = "load_env_vars"
    /\ \E env \in EnvPasswords :
          LET result == decrypt(Crypto(proc[p].crypto), password)
              loaded == IF starts_with(password, ENC_PREFIX)
                        THEN IF proc[p].crypto # NoKey /\ result.ok
                             THEN result.text
                             ELSE password
                        ELSE IF env.some THEN env.v ELSE password
          IN  proc' = [proc EXCEPT ![p] =
                   IF @.command = "get"
                   THEN [@ EXCEPT !.pc = "get_password", !.password = loaded]
                   ELSE [@ EXCEPT !.pc = "connect", !.password = loaded]]
    /\ UNCHANGED <<gateVars, pureVars, cipherVars, key_file, password, returned, resets,
                   commands>>

\* handle_query, lines 237-238: database.connect(profile) builds the
\* connection from the profile as loaded, its password included.
DatabaseConnect(p) ==
    /\ proc[p].pc = "connect"
    /\ proc' = [proc EXCEPT ![p].pc = "idle", ![p].exit = "ok",
                            ![p].connected = TRUE,
                            ![p].credential = proc[p].password]
    /\ UNCHANGED <<gateVars, pureVars, cipherVars, key_file, password, returned, resets,
                   commands>>

\* SecretAction::Set: the password is encrypted and written to the profile.
SecretSet(p) ==
    /\ proc[p].pc = "set"
    /\ \E plaintext \in Passwords :
          LET token == encrypt(Crypto(proc[p].master_key), plaintext, rng) IN
          /\ tokens' = Append(tokens, [plaintext |-> plaintext,
                                       key |-> proc[p].master_key,
                                       token |-> token])
          /\ password' = token
    /\ rng' = rng + 1
    /\ proc' = [proc EXCEPT ![p].pc = "idle", ![p].exit = "ok"]
    /\ UNCHANGED <<gateVars, pureVars, master_key, encrypted, decrypted, key_file,
                   returned, resets, commands>>

\* SecretAction::Get: ApplicationConfig::load(None), which gets to
\* get_or_create_master_key through load_env_vars.
SecretGetLoad(p) ==
    /\ proc[p].pc = "get"
    /\ proc' = [proc EXCEPT ![p].pc = "exists", ![p].caller = "load_env_vars"]
    /\ UNCHANGED <<gateVars, pureVars, cipherVars, key_file, password, returned, resets,
                   commands>>

\* SecretAction::Get: the loaded password is decrypted if it starts with
\* "enc:", and printed.
SecretGet(p) ==
    /\ proc[p].pc = "get_password"
    /\ IF starts_with(proc[p].password, ENC_PREFIX)
       THEN LET result == decrypt(Crypto(proc[p].master_key), proc[p].password)
            IN  /\ encrypted' = [text |-> proc[p].password,
                                 origin |-> [kind |-> "loaded", of |-> 0]]
                /\ decrypted' = [called |-> TRUE, key |-> proc[p].master_key,
                                 result |-> result]
                /\ proc' = [proc EXCEPT
                               ![p].pc = "idle",
                               ![p].exit = IF result.ok THEN "ok" ELSE "failed",
                               ![p].error = result.error]
       ELSE /\ proc' = [proc EXCEPT ![p].pc = "idle", ![p].exit = "ok"]
            /\ UNCHANGED <<encrypted, decrypted>>
    /\ UNCHANGED <<gateVars, pureVars, master_key, rng, tokens, key_file, password,
                   returned, resets, commands>>

\* SecretAction::Remove: the password of the profile becomes empty.
SecretRemove(p) ==
    /\ proc[p].pc = "remove"
    /\ password' = <<>>
    /\ proc' = [proc EXCEPT ![p].pc = "idle", ![p].exit = "ok"]
    /\ UNCHANGED <<gateVars, pureVars, cipherVars, key_file, returned, resets, commands>>

\* (a variant that fails when there is no file)
ResetExists_strict(p) ==
    /\ proc[p].pc = "reset"
    /\ proc' = [proc EXCEPT ![p] =
                    IF key_file.exists THEN [@ EXCEPT !.pc = "remove_file"]
                    ELSE [@ EXCEPT !.pc = "idle", !.exit = "failed",
                                   !.error = "Failed to delete master key"]]
    /\ UNCHANGED <<gateVars, pureVars, cipherVars, key_file, password, returned, resets,
                   commands>>

\* reset_master_key: if key_path.exists()
ResetExists(p) ==
    /\ proc[p].pc = "reset"
    /\ proc' = [proc EXCEPT ![p] =
                    IF key_file.exists THEN [@ EXCEPT !.pc = "remove_file"]
                    ELSE [@ EXCEPT !.pc = "idle", !.exit = "ok"]]
    /\ UNCHANGED <<gateVars, pureVars, cipherVars, key_file, password, returned, resets,
                   commands>>

\* (a variant that leaves the file where it is)
RemoveFile_kept(p) ==
    /\ proc[p].pc = "remove_file"
    /\ key_file' = key_file
    /\ resets' = resets + 1
    /\ proc' = [proc EXCEPT ![p].pc = "idle", ![p].exit = "ok"]
    /\ UNCHANGED <<gateVars, pureVars, cipherVars, password, returned, commands>>

\* reset_master_key: fs::remove_file(&key_path)
RemoveFile(p) ==
    /\ proc[p].pc = "remove_file"
    /\ IF key_file.exists
       THEN /\ key_file' = NoKeyFile
            /\ resets' = resets + 1
            /\ proc' = [proc EXCEPT ![p].pc = "idle", ![p].exit = "ok"]
       ELSE /\ UNCHANGED <<key_file, resets>>
            /\ proc' = [proc EXCEPT ![p].pc = "idle", ![p].exit = "failed",
                                    ![p].error = "Failed to delete master key"]
    /\ UNCHANGED <<gateVars, pureVars, cipherVars, password, returned, commands>>

\* One command after the other, each run to its end by one process.
StoreNext ==
    \/ Start(1, AllCommands)
    \/ Exists(1)
    \/ Read(1)
    \/ Generate(1)
    \/ Create(1)
    \/ WriteAll(1)
    \/ SetPermissions(1)
    \/ LoadEnvVars(1)
    \/ DatabaseConnect(1)
    \/ SecretSet(1)
    \/ SecretGetLoad(1)
    \/ SecretGet(1)
    \/ SecretRemove(1)
    \/ ResetExists(1)
    \/ RemoveFile(1)

StoreSpec == StoreInit /\ [][StoreNext]_vars

\* Two processes, each loading the configuration, their steps interleaved.
RaceNext ==
    \E p \in Procs :
        \/ Start(p, {"load"})
        \/ Exists(p)
        \/ Read(p)
        \/ Generate(p)
        \/ Create(p)
        \/ WriteAll(p)
        \/ SetPermissions(p)
        \/ LoadEnvVars(p)
        \/ DatabaseConnect(p)

RaceSpec == RaceInit /\ [][RaceNext]_vars

\* Two processes, each loading the configuration or running secret remove,
\* their steps interleaved, with the key file as found.
ConcurrentNext ==
    \E p \in Procs :
        \/ Start(p, {"load", "remove"})
        \/ Exists(p)
        \/ Read(p)
        \/ Generate(p)
        \/ Create(p)
        \/ WriteAll(p)
        \/ SetPermissions(p)
        \/ LoadEnvVars(p)
        \/ DatabaseConnect(p)
        \/ SecretRemove(p)

ConcurrentSpec == StoreInit /\ [][ConcurrentNext]_vars

\* The two functions of SecretManager called one after the other, as the
\* test of secret.rs does, starting without a key file or with a key stored
\* earlier.
StoredKeyFiles ==
    {[exists |-> TRUE, content |-> BASE64_encode(Keys[i]) \o newline,
      mode |-> OwnerOnly] : i \in 1..Len(Keys), newline \in {<<>>, <<10>>}}
ManagerInit ==
    /\ GateIdle
    /\ CipherIdle
    /\ PureIdle
    /\ key_file \in {NoKeyFile} \cup StoredKeyFiles
    /\ password = <<>>
    /\ proc = [p \in Procs |-> IdleProc]
    /\ returned = <<>>
    /\ resets = 0
    /\ commands = 0

\* manager.get_or_create_master_key()
GetOrCreateMasterKey(p) == Start(p, {"get_or_create_master_key"})

\* manager.reset_master_key()
ResetMasterKey(p) ==
    /\ proc[p].pc = "idle"
    /\ commands < MaxCommands
    /\ proc' = [proc EXCEPT ![p] =
                    [IdleProc EXCEPT !.pc = "reset",
                                     !.command = "reset_master_key",
                                     !.caller = "tests"]]
    /\ commands' = commands + 1
    /\ UNCHANGED <<gateVars, pureVars, cipherVars, key_file, password, returned, resets>>

ManagerNext ==
    \/ GetOrCreateMasterKey(1)
    \/ ResetMasterKey(1)
    \/ Exists(1)
    \/ Read(1)
    \/ Generate(1)
    \/ Create(1)
    \/ WriteAll(1)
    \/ SetPermissions(1)
    \/ ResetExists(1)
    \/ RemoveFile(1)

ManagerSpec == ManagerInit /\ [][ManagerNext]_vars

\* The password of the profile in the configuration file: none, a plain one,
\* one that secret set encrypted under the first key, and an "enc:" value
\* that is no token.
StoredPasswords ==
    {<<>>, <<112, 119>>, encrypt(Crypto(Keys[1]), <<112, 119>>, 7),
     ENC_PREFIX \o <<33>>}

\* ApplicationConfig::load, called by one command after the other, with the
\* key file and the configuration as found.
LoadInit ==
    /\ GateIdle
    /\ CipherIdle
    /\ PureIdle
    /\ key_file \in InitialKeyFiles
    /\ password \in StoredPasswords
    /\ proc = [p \in Procs |-> IdleProc]
    /\ returned = <<>>
    /\ resets = 0
    /\ commands = 0

LoadNext ==
    \/ Start(1, {"load"})
    \/ Exists(1)
    \/ Read(1)
    \/ Generate(1)
    \/ Create(1)
    \/ WriteAll(1)
    \/ SetPermissions(1)
    \/ LoadEnvVars(1)
    \/ DatabaseConnect(1)

LoadSpec == LoadInit /\ [][LoadNext]_vars

(* --------------------------- saved queries ------------------------------ *)

MaxParamText == 4

\* The characters of a saved query's text, with their code points: the
\* colon, letters of both cases, the underscore, a digit and the space.
CodePoint == [c \in {":", "a", "B", "_", "1", " "} |->
                 CASE c = ":" -> 58 [] c = "a" -> 97 [] c = "B" -> 66
                   [] c = "_" -> 95 [] c = "1" -> 49 [] c = " " -> 32]
Chars == DOMAIN CodePoint
\* \w of the regex
IsWord(c) == c \in {"a", "B", "_", "1"}

\* Ord for String: byte by byte, the shorter first when one is a prefix.
RECURSIVE StringLess(_, _)
StringLess(a, b) ==
    IF b = <<>> THEN FALSE
    ELSE IF a = <<>> THEN TRUE
    ELSE IF CodePoint[Head(a)] # CodePoint[Head(b)]
    THEN CodePoint[Head(a)] < CodePoint[Head(b)]
    ELSE StringLess(Tail(a), Tail(b))

\* \w+, greedy: the last position of the run of word characters from i on
RECURSIVE WordEnd(_, _)
WordEnd(text, i) ==
    IF i < Len(text) /\ IsWord(text[i + 1]) THEN WordEnd(text, i + 1) ELSE i

\* PARAM_REGEX.captures_iter(sql), group 1 of every match of :(\w+), the
\* matches taken from left to right without overlap
RECURSIVE captures_iter(_, _)
captures_iter(text, i) ==
    IF i > Len(text) THEN <<>>
    ELSE IF text[i] = ":" /\ i < Len(text) /\ IsWord(text[i + 1])
    THEN LET j == WordEnd(text, i + 1)
         IN  <<SubSeq(text, i + 1, j)>> \o captures_iter(text, j + 1)
    ELSE captures_iter(text, i + 1)

\* Vec::sort
RECURSIVE Insert(_, _)
Insert(sorted, x) ==
    IF sorted = <<>> THEN <<x>>
    ELSE IF StringLess(x, Head(sorted)) THEN <<x>> \o sorted
    ELSE <<Head(sorted)>> \o Insert(Tail(sorted), x)
RECURSIVE sort(_)
sort(v) == IF v = <<>> THEN <<>> ELSE Insert(sort(Tail(v)), Head(v))

\* Vec::dedup: of equal neighbours the first stays
RECURSIVE dedup(_)
dedup(v) ==
    IF Len(v) < 2 THEN v
    ELSE IF v[1] = v[2] THEN dedup(Tail(v))
    ELSE <<Head(v)>> \o dedup(Tail(v))

\* (a variant that does not sort before dedup)
extract_params_unsorted(text) == dedup(captures_iter(text, 1))

\* QueryManager::extract_params
extract_params(text) == dedup(sort(captures_iter(text, 1)))

\* The texts: every string of the characters up to the bound.
RECURSIVE Strings(_)
Strings(n) ==
    IF n = 0 THEN {<<>>}
    ELSE LET shorter == Strings(n - 1)
         IN  shorter \cup {Append(t, c) : t \in shorter, c \in Chars}
ParamTexts == Strings(MaxParamText)

ParamInit ==
    /\ GateIdle
    /\ CipherIdle
    /\ StoreIdle
    /\ call \in [fn : {"extract_params"}, sql : ParamTexts]
    /\ ret = NotReturned

\* save_query: let params = Self::extract_params(sql)
ExtractParams ==
    /\ call.fn = "extract_params"
    /\ ~ret.done
    /\ ret' = [done |-> TRUE, value |-> extract_params(call.sql)]
    /\ UNCHANGED <<gateVars, cipherVars, storeVars, call>>

ParamNext == ExtractParams

ParamSpec == ParamInit /\ [][ParamNext]_vars

(* --------------------------- configuration ------------------------------ *)

MaxNames == 2

\* The names of profiles and of saved queries in the two files.
ConfigNames == <<"local", "production", "staging", "dev">>
Names == {ConfigNames[i] : i \in 1..MaxNames}

\* An entry as the first file (self) and as the second file (other) has it:
\* the two differ in every field that can differ.
ProfileOf ==
    [self |-> [db_type |-> "postgresql", host |-> "localhost", port |-> 5432,
               user |-> "dev", password |-> <<>>, database |-> "app",
               schema |-> "public"],
     other |-> [db_type |-> "mysql", host |-> "other.example.com",
                port |-> 3306, user |-> "admin", password |-> <<112, 119>>,
                database |-> "prod", schema |-> ""]]
SavedQueryOf ==
    [self |-> [sql |-> "SELECT 1", description |-> "one", params |-> <<>>],
     other |-> [sql |-> "SELECT :n", description |-> "", params |-> <<"n">>]]

\* HashMap<String, _>: a function on the names it has
Maps(entry) == UNION {[names -> {entry}] : names \in SUBSET Names}

\* DefaultSettings: what Default gives, another setting, and in the second
\* file also the empty strings and the zero.
DefaultsOf ==
    [self |-> {[default_profile |-> "local", cache_ttl_hours |-> 24,
                output_format |-> "table"],
               [default_profile |-> "staging", cache_ttl_hours |-> 12,
                output_format |-> "csv"]},
     other |-> [default_profile : {"", "production"},
                cache_ttl_hours : {0, 48},
                output_format : {"", "json"}]]

\* ApplicationConfig, as read from the first and from the second file
Configs(side) ==
    [profiles : Maps(ProfileOf[side]),
     defaults : DefaultsOf[side],
     saved_queries : Maps(SavedQueryOf[side])]

\* HashMap::insert
insert(map, name, value) ==
    [n \in DOMAIN map \cup {name} |-> IF n = name THEN value ELSE map[n]]

\* (a variant whose loop keeps an entry the map already has)
RECURSIVE insert_missing(_, _)
insert_missing(map, other) ==
    IF DOMAIN other = {} THEN map
    ELSE LET name == CHOOSE n \in DOMAIN other : TRUE
             rest == [n \in DOMAIN other \ {name} |-> other[n]]
         IN  insert_missing(IF name \in DOMAIN map THEN map
                            ELSE insert(map, name, other[name]), rest)

\* for (name, value) in other { self.insert(name, value) }
RECURSIVE insert_all(_, _)
insert_all(map, other) ==
    IF DOMAIN other = {} THEN map
    ELSE LET name == CHOOSE n \in DOMAIN other : TRUE
             rest == [n \in DOMAIN other \ {name} |-> other[n]]
         IN  insert_all(insert(map, name, other[name]), rest)

\* ApplicationConfig::merge
merge(self, other) ==
    [profiles |-> insert_all(self.profiles, other.profiles),
     saved_queries |-> insert_all(self.saved_queries, other.saved_queries),
     defaults |->
        [default_profile |->
            IF other.defaults.default_profile # ""
            THEN other.defaults.default_profile
            ELSE self.defaults.default_profile,
         cache_ttl_hours |->
            IF other.defaults.cache_ttl_hours > 0
            THEN other.defaults.cache_ttl_hours
            ELSE self.defaults.cache_ttl_hours,
         output_format |->
            IF other.defaults.output_format # ""
            THEN other.defaults.output_format
            ELSE self.defaults.output_format]]

MergeInit ==
    /\ GateIdle
    /\ CipherIdle
    /\ StoreIdle
    /\ call \in [fn : {"merge"}, self : Configs("self"), other : Configs("other")]
    /\ ret = NotReturned

\* ApplicationConfig::load: config = config.merge(project_config)
Merge ==
    /\ call.fn = "merge"
    /\ ~ret.done
    /\ ret' = [done |-> TRUE, value |-> merge(call.self, call.other)]
    /\ UNCHANGED <<gateVars, cipherVars, storeVars, call>>

MergeNext == Merge

MergeSpec == MergeInit /\ [][MergeNext]_vars

(* ------------------------- vocabulary of the claims -------------------- *)

\* The policy and the validator of the command's profile.
Policy == config.profile.safety
TheValidator == QueryValidator(Policy, config.profile.db_type)

\* The batch the parser gave for the text handle_query received.
Parsed == statements
Stmts == Parsed.statements

\* validate() has returned, and its result.
Called == validated_sql.called
R == validated_sql.result

\* validate() has returned on a text that parses to at least one statement.
CalledOnBatch == Called /\ Parsed.ok /\ Stmts # <<>>

\* The top-level shapes that have a class.
ClassedVariants == {"Query", "Explain", "ShowTables", "ShowColumns", "Insert",
                    "Update", "Delete", "CreateTable", "Drop", "AlterTable",
                    "Truncate"}
Classed(i) == Stmts[i].variant \in ClassedVariants

\* Some entry of allowed_operations is class c, ignoring ASCII case.
Permitted(c) ==
    \E i \in 1..Len(Policy.allowed_operations) :
        to_lowercase(Policy.allowed_operations[i]) = to_lowercase(c)

\* Statement i has a class, and the class is absent from allowed_operations.
Disallowed(i) == Classed(i) /\ ~Permitted(StmtType(Stmts[i]))

\* Every statement of the batch has a class that allowed_operations holds.
PassesAllowList == \A i \in 1..Len(Stmts) : Classed(i) /\ Permitted(StmtType(Stmts[i]))

IsSelect(i) == Stmts[i].variant = "Query"
AllSelect == \A i \in 1..Len(Stmts) : IsSelect(i)

\* Statement i is a SELECT with a literal numeric LIMIT; its value, as the
\* canonical digits.
HasLiteralLimit(i) ==
    /\ IsSelect(i)
    /\ Stmts[i].limit_clause.limit.e = "Number"
LiteralLimit(i) == StripLeadingZeros(Stmts[i].limit_clause.limit.d)

ExceedsMax(n) == DigitsLess(NatToDigits(Policy.max_limit), n)

\* The clause validate() appends.
DefaultLimitSuffix == <<SP, LIMIT, SP, Num(NatToDigits(Policy.default_limit))>>

\* text is t with its trailing semicolons removed, all of them.
IsSemicolonTrimmed(text, t) ==
    /\ Len(text) <= Len(t)
    /\ text = SubSeq(t, 1, Len(text))
    /\ \A i \in (Len(text) + 1)..Len(t) : t[i] = SEMI
    /\ (text = <<>> \/ text[Len(text)] # SEMI)

\* text is t with one trailing semicolon removed, if t ends with one.
IsOneSemicolonTrimmed(text, t) ==
    IF t # <<>> /\ t[Len(t)] = SEMI
    THEN text = SubSeq(t, 1, Len(t) - 1)
    ELSE text = t

CountLimit(text) == Cardinality({i \in 1..Len(text) : text[i] = LIMIT})

(* -------------------------------- claims ------------------------------- *)

\* C1 (as stated): whenever some statement of the batch has one of the ten
\* classes and the class is absent from allowed_operations, validate() fails
\* with OperationNotAllowed, naming a rejected class of the batch and the
\* permitted set, and returns no SQL.
C1_AsStated ==
    (CalledOnBatch /\ \E i \in 1..Len(Stmts) : Disallowed(i)) =>
        /\ ~R.ok
        /\ R.sql = <<>>
        /\ R.err.kind = "OperationNotAllowed"
        /\ \E i \in 1..Len(Stmts) : Disallowed(i) /\ R.err.class = StmtType(Stmts[i])
        /\ R.err.permitted = Policy.allowed_operations

\* C1 (amended): whenever some statement of the batch has a class absent
\* from allowed_operations, validate() fails and returns no SQL; when no
\* statement without a class precedes the first such statement, the error is
\* OperationNotAllowed and names that statement's class and the permitted
\* set, wherever in the batch the statement is.
C1_Rejected ==
    (CalledOnBatch /\ \E i \in 1..Len(Stmts) : Disallowed(i)) =>
        LET first == CHOOSE i \in 1..Len(Stmts) :
                        Disallowed(i) /\ \A j \in 1..(i - 1) : ~Disallowed(j)
        IN
        /\ ~R.ok
        /\ R.sql = <<>>
        /\ (\A j \in 1..(first - 1) : Classed(j)) =>
              /\ R.err.kind = "OperationNotAllowed"
              /\ R.err.class = StmtType(Stmts[first])
              /\ R.err.permitted = Policy.allowed_operations

\* C1 witness: a batch whose second statement is the disallowed one, after an
\* allowed first statement, was rejected naming the second statement's class.
C1_Witness ==
    /\ CalledOnBatch
    /\ Len(Stmts) = 2
    /\ ~Disallowed(1) /\ Classed(1)
    /\ Disallowed(2)
    /\ R.err.kind = "OperationNotAllowed"
    /\ R.err.class = DELETE

\* C2 (as stated, on the batches the limit policy applies to): whenever
\* validate() returns successfully on a batch of SELECTs, every literal
\* numeric LIMIT of the batch, in any statement, is at most max_limit.
C2_AsStated ==
    (CalledOnBatch /\ AllSelect /\ R.ok) =>
        \A i \in 1..Len(Stmts) : HasLiteralLimit(i) => ~ExceedsMax(LiteralLimit(i))

\* C3 (as stated): for a single allowed SELECT with no LIMIT clause,
\* validate() returns the text with one trailing semicolon removed, if there
\* is one, and " LIMIT <default_limit>" appended.
C3_AsStated ==
    (CalledOnBatch /\ Len(Stmts) = 1 /\ IsSelect(1) /\ Permitted(SELECT)
        /\ CountLimit(sql.v) = 0) =>
        /\ R.ok
        /\ \E text \in {SubSeq(sql.v, 1, k) : k \in 0..Len(sql.v)} :
              /\ IsOneSemicolonTrimmed(text, sql.v)
              /\ R.sql = text \o DefaultLimitSuffix

\* C3 (amended): for a single allowed SELECT with no LIMIT clause,
\* validate() returns the text with all its trailing semicolons removed and
\* " LIMIT <default_limit>" appended; the result holds exactly one LIMIT.
C3_DefaultAppended ==
    (CalledOnBatch /\ Len(Stmts) = 1 /\ IsSelect(1) /\ Permitted(SELECT)
        /\ CountLimit(sql.v) = 0) =>
        /\ R.ok
        /\ CountLimit(R.sql) = 1
        /\ \E text \in {SubSeq(sql.v, 1, k) : k \in 0..Len(sql.v)} :
              /\ IsSemicolonTrimmed(text, sql.v)
              /\ R.sql = text \o DefaultLimitSuffix

\* C3 witness: a SELECT without LIMIT that ended in two semicolons came back
\* with both removed and the default limit appended.
C3_Witness ==
    /\ CalledOnBatch /\ Len(Stmts) = 1 /\ IsSelect(1)
    /\ sql.v = <<Tok("SELECT"), SEMI, SEMI>>
    /\ R.ok
    /\ R.sql = <<Tok("SELECT")>> \o DefaultLimitSuffix

\* C4 (as stated): for a single allowed SELECT with a literal numeric LIMIT n
\* above max_limit, in any of the forms, validate() fails with
\* LimitExceeded(n, max_limit) and returns no SQL.
C4_AsStated ==
    (CalledOnBatch /\ Len(Stmts) = 1 /\ Permitted(SELECT) /\ HasLiteralLimit(1)
        /\ ExceedsMax(LiteralLimit(1))) =>
        /\ ~R.ok
        /\ R.sql = <<>>
        /\ R.err.kind = "LimitExceeded"
        /\ R.err.requested = LiteralLimit(1)
        /\ R.err.max = Policy.max_limit

C6_AsStated ==
    (CalledOnBatch /\ R.ok /\ R.sql # sql.v) =>
        \A i \in 1..Len(Stmts) : ~HasLiteralLimit(i)

\* C7: in the query command and in the run command, a database is created,
\* connected or used only after validate() returned success; the SQL of every
\* execute_query call is validate()'s output; after a failed validate() there
\* is no database and nothing was executed.
C7_ValidatedBeforeExecution ==
    /\ (database # "none" \/ executed # <<>>) => (Called /\ R.ok)
    /\ \A i \in 1..Len(executed) : executed[i].sql = R.sql
    /\ (Called /\ ~R.ok) => (database = "none" /\ executed = <<>>)
    /\ ~Called => (database = "none" /\ executed = <<>>)

\* C7 witness: the run command executed a text that validate() had rewritten.
C7_Witness ==
    /\ cli.command = "run"
    /\ database = "connected"
    /\ Len(executed) = 1
    /\ Called /\ R.ok
    /\ executed[1].sql = R.sql
    /\ executed[1].sql # sql.v

\* C8: on a batch whose statements all have a class, the allow-list check
\* passes (validate() succeeds or fails only with LimitExceeded) if and only
\* if every statement's class equals some entry of allowed_operations
\* ignoring ASCII case; so a policy that permits only SELECT rejects EXPLAIN
\* and SHOW.
C8_AllowListExact ==
    (CalledOnBatch /\ \A i \in 1..Len(Stmts) : Classed(i)) =>
        ((R.ok \/ R.err.kind = "LimitExceeded")
            <=> \A i \in 1..Len(Stmts) : Permitted(StmtType(Stmts[i])))

\* C8 witness: under a policy that lists "delete" in lower case and not SHOW,
\* the batch DELETE; SHOW TABLES was rejected for its SHOW: the lower-case
\* entry admitted the DELETE and no entry admitted the SHOW.
C8_Witness ==
    /\ CalledOnBatch /\ Len(Stmts) = 2
    /\ Policy.allowed_operations = <<to_lowercase(DELETE), SELECT, INSERT>>
    /\ Stmts[1].variant = "Delete"
    /\ Stmts[2].variant = "ShowTables"
    /\ R.err.kind = "OperationNotAllowed"
    /\ R.err.class = SHOW

\* C9: a batch with a statement whose top-level shape has no class makes
\* validate() fail and return no SQL under every policy; the error is
\* UnsupportedStatement unless a statement before it is rejected first.
C9_UnsupportedRejected ==
    (CalledOnBatch /\ \E i \in 1..Len(Stmts) : ~Classed(i)) =>
        /\ ~R.ok
        /\ R.sql = <<>>
        /\ R.err.kind \in {"UnsupportedStatement", "OperationNotAllowed"}
        /\ LET first == CHOOSE i \in 1..Len(Stmts) :
                           ~Classed(i) /\ \A j \in 1..(i - 1) : Classed(j)
           IN (\A j \in 1..(first - 1) : Permitted(StmtType(Stmts[j])))
                 => R.err.kind = "UnsupportedStatement"

\* C9 witness: a SET statement was rejected as unsupported under a policy
\* whose allowed_operations names SET and UNSUPPORTED.
C9_Witness ==
    /\ CalledOnBatch
    /\ \E i \in 1..Len(Stmts) : Stmts[i].variant = "Set"
    /\ \E i \in 1..Len(Policy.allowed_operations) :
          Policy.allowed_operations[i] = <<"S","E","T">>
    /\ R.err.kind = "UnsupportedStatement"

\* C10: a batch that passes the allow-list and holds a non-SELECT statement
\* comes back as the input text, unmodified, whatever LIMIT it carries.
C10_NonSelectUnmodified ==
    (CalledOnBatch /\ PassesAllowList /\ ~AllSelect) => R = Ok(sql.v)

\* C10 witness: a batch of a SELECT with a LIMIT above max_limit and a
\* DELETE, ending in a semicolon, came back unmodified.
C10_Witness ==
    /\ CalledOnBatch /\ Len(Stmts) = 2
    /\ HasLiteralLimit(1) /\ ExceedsMax(LiteralLimit(1))
    /\ Stmts[2].variant = "Delete"
    /\ sql.v[Len(sql.v)] = SEMI
    /\ R = Ok(sql.v)

\* C11: validate() fails and returns no SQL when the text parses to no
\* statement (EmptyQuery) and when it does not parse (SyntaxError with the
\* parser's diagnostic), under every policy: neither case reaches the
\* allow-list or the limit check.
C11_EmptyAndSyntax ==
    Called =>
        /\ ~Parsed.ok =>
              /\ R = Err(SyntaxErrorOf(Parsed))
              /\ R.err.kind = "SyntaxError" /\ R.err.diag # ""
        /\ (Parsed.ok /\ Stmts = <<>>) =>
              /\ R = Err(EmptyQuery)
              /\ R.err.kind = "EmptyQuery"

\* C11 witness: under a policy that allows nothing, a text of semicolons
\* only was rejected as empty.
C11_Witness ==
    /\ Called
    /\ sql.v = <<SEMI, SEMI>>
    /\ Policy.allowed_operations = <<>>
    /\ R.err.kind = "EmptyQuery"
    /\ R.sql = <<>>

\* C12: for a single allowed SELECT whose LIMIT is no numeric literal (a bind
\* parameter, an expression, NULL, ALL), validate() succeeds and returns the
\* text with its trailing semicolons removed and " LIMIT <default_limit>"
\* appended.
NonLiteralLimit ==
    /\ CountLimit(sql.v) = 1
    /\ \A i \in 1..Len(sql.v) : sql.v[i].k # "num"
C12_NonLiteralCountsAsAbsent ==
    (CalledOnBatch /\ Len(Stmts) = 1 /\ IsSelect(1) /\ Permitted(SELECT)
        /\ NonLiteralLimit) =>
        /\ R.ok
        /\ \E text \in {SubSeq(sql.v, 1, k) : k \in 0..Len(sql.v)} :
              /\ IsSemicolonTrimmed(text, sql.v)
              /\ R.sql = text \o DefaultLimitSuffix

\* C12 witness: SELECT ... LIMIT ? came back with a second LIMIT appended.
C12_Witness ==
    /\ CalledOnBatch /\ Len(Stmts) = 1 /\ IsSelect(1)
    /\ sql.v = StatementText("SELECT", <<LIMIT, Tok("?")>>) \o <<SEMI>>
    /\ R = Ok(StatementText("SELECT", <<LIMIT, Tok("?")>>) \o DefaultLimitSuffix)
    /\ CountLimit(R.sql) = 2

\* C13 (as stated): every policy validate() runs with has default_limit > 0
\* and max_limit >= default_limit, so an appended LIMIT is positive and at
\* most max_limit.
C13_AsStated ==
    Called =>
        /\ Policy.default_limit > 0
        /\ Policy.max_limit >= Policy.default_limit

(* ------------------------- claims about the cipher --------------------- *)

\* decrypt was called on the value tokens[i] holds, unchanged
DecryptedToken(i) ==
    /\ decrypted.called
    /\ encrypted.origin = [kind |-> "token", of |-> i]

\* C14: decrypt(encrypt(p, k), k) succeeds and returns exactly p, and every
\* value encrypt returns starts with "enc:".
C14_RoundTrip ==
    /\ \A i \in 1..Len(tokens) : starts_with(tokens[i].token, ENC_PREFIX)
    /\ \A i \in 1..Len(tokens) :
          (DecryptedToken(i) /\ decrypted.key = tokens[i].key) =>
              decrypted.result = DecryptOk(tokens[i].plaintext)

\* C14 witness: a string with a two-byte character came back from decrypt
\* under the key it was encrypted with.
C14_Witness ==
    /\ Len(tokens) = 1
    /\ tokens[1].plaintext = <<195, 169>>
    /\ DecryptedToken(1) /\ decrypted.key = tokens[1].key
    /\ decrypted.result.ok /\ decrypted.result.text = <<195, 169>>

\* C15: under another key than the one of encrypt, or with one byte of the
\* nonce, the ciphertext or the tag changed, decrypt returns an error and
\* no plaintext.
C15_FailsClosed ==
    \A i \in 1..Len(tokens) :
        (/\ decrypted.called
         /\ encrypted.origin.of = i
         /\ \/ encrypted.origin.kind = "altered"
            \/ encrypted.origin.kind = "token" /\ decrypted.key # tokens[i].key) =>
            /\ ~decrypted.result.ok
            /\ decrypted.result.text = <<>>
            /\ decrypted.result.error = "Decryption failed"

\* C15 witness: a value with one byte changed was refused under the key it
\* was encrypted with.
C15_Witness ==
    /\ decrypted.called
    /\ encrypted.origin = [kind |-> "altered", of |-> 1]
    /\ decrypted.key = tokens[1].key
    /\ tokens[1].plaintext # <<>>
    /\ ~decrypted.result.ok

\* C16: every call of encrypt draws its own nonce: two calls with the same
\* plaintext and key return two different values, and each of them decrypts
\* to the plaintext.
NonceOf(token) ==
    SubSeq(BASE64_decode(strip_prefix(token, ENC_PREFIX).rest).data, 1, NONCE_SIZE)
C16_FreshNonce ==
    \A i, j \in 1..Len(tokens) :
        (i < j /\ tokens[i].plaintext = tokens[j].plaintext
               /\ tokens[i].key = tokens[j].key) =>
            /\ NonceOf(tokens[i].token) # NonceOf(tokens[j].token)
            /\ tokens[i].token # tokens[j].token
            /\ \A k \in {i, j} :
                  (DecryptedToken(k) /\ decrypted.key = tokens[k].key) =>
                      decrypted.result = DecryptOk(tokens[k].plaintext)

\* C16 witness: "pw" was encrypted twice under one key, and the second
\* value was decrypted.
C16_Witness ==
    /\ Len(tokens) = 2
    /\ tokens[1].plaintext = <<112, 119>> /\ tokens[2].plaintext = <<112, 119>>
    /\ tokens[1].key = tokens[2].key
    /\ tokens[1].token # tokens[2].token
    /\ DecryptedToken(2) /\ decrypted.key = tokens[2].key
    /\ decrypted.result.ok

\* C17: decrypt refuses a text without the "enc:" prefix, then one whose
\* rest is no base64, then one whose decoded bytes are fewer than the 12 of
\* the nonce, each with an error of its own, in this order, and none of the
\* three is the error of a failed tag verification.
HasPrefix == starts_with(encrypted.text, ENC_PREFIX)
Decoded == BASE64_decode(strip_prefix(encrypted.text, ENC_PREFIX).rest)
C17_MalformedInOrder ==
    decrypted.called =>
        LET e == decrypted.result.error IN
        /\ ~HasPrefix => (~decrypted.result.ok /\ e = "Invalid encrypted format")
        /\ (HasPrefix /\ ~Decoded.ok) =>
              (~decrypted.result.ok /\ e = "Invalid base64 encoding")
        /\ (HasPrefix /\ Decoded.ok /\ Len(Decoded.data) < 12) =>
              (~decrypted.result.ok /\ e = "Invalid encrypted data")
        /\ (HasPrefix /\ Decoded.ok /\ Len(Decoded.data) >= 12) =>
              e \notin {"Invalid encrypted format", "Invalid base64 encoding",
                        "Invalid encrypted data"}
        /\ e = "Decryption failed" =>
              (HasPrefix /\ Decoded.ok /\ Len(Decoded.data) >= 12)

\* C17 witness: eleven well-encoded bytes after the prefix were refused as
\* too short.
C17_Witness ==
    /\ decrypted.called
    /\ encrypted.text = ENC_PREFIX \o BASE64_encode(fill_bytes(11, 7))
    /\ decrypted.result = DecryptErr("Invalid encrypted data")

(* ----------------------- claims about the master key ------------------- *)

\* The key the file holds, if it holds one.
StoredKey == BASE64_decode(trim(key_file.content))
HoldsKey(file) ==
    /\ file.exists
    /\ BASE64_decode(trim(file.content)).ok
    /\ Len(BASE64_decode(trim(file.content)).data) = 32
\* A step of reset_master_key's remove_file
IsReset == resets' # resets

\* C18: without a reset the master key does not change: the calls of
\* get_or_create_master_key that succeed between two resets all return the
\* same key, that key is the one the file holds, and no step other than a
\* reset removes or rewrites a file that holds a key.
C18_Returned ==
    /\ \A i, j \in 1..Len(returned) :
          returned[i].epoch = returned[j].epoch =>
              returned[i].key = returned[j].key
    /\ \A i \in 1..Len(returned) :
          returned[i].epoch = resets =>
              (HoldsKey(key_file) /\ StoredKey.data = returned[i].key)
C18_Kept ==
    (HoldsKey(key_file) /\ ~IsReset) =>
        (key_file'.exists /\ key_file'.content = key_file.content)
C18_KeyNeverChanges == [](C18_Returned) /\ [][C18_Kept]_vars

\* C18 witness: three commands without a reset, started without a key file,
\* got the key four times, the one that created it included.
C18_Witness ==
    /\ resets = 0
    /\ commands = 3
    /\ Len(returned) = 4
    /\ Len(tokens) = 1
    /\ proc[1].pc = "idle" /\ proc[1].command = "get" /\ proc[1].exit = "ok"
    /\ key_file.mode = OwnerOnly
    /\ returned[1].key = generate_key(0)

\* C19: a reset removes the key file; the calls of
\* get_or_create_master_key after it return another key than the calls
\* before it; and no value encrypted under a key from before the reset
\* decrypts under a key from after it.
C19_ResetRotates ==
    /\ (proc[1].command = "reset" /\ proc[1].pc = "idle" /\ proc[1].exit = "ok") =>
          ~key_file.exists
    /\ \A i, j \in 1..Len(returned) :
          returned[i].epoch < returned[j].epoch =>
              /\ returned[i].key # returned[j].key
              /\ \A t \in 1..Len(tokens) :
                    tokens[t].key = returned[i].key =>
                        ~decrypt(Crypto(returned[j].key), tokens[t].token).ok
    /\ \A t \in 1..Len(tokens) :
          (/\ decrypted.called
           /\ encrypted.text = tokens[t].token
           /\ decrypted.key # tokens[t].key) =>
              decrypted.result = DecryptErr("Decryption failed")

\* C19 witness: set, reset, get: the password encrypted before the reset was
\* refused under the key created after it.
C19_Witness ==
    /\ resets = 1
    /\ Len(tokens) = 1
    /\ proc[1].command = "get" /\ proc[1].pc = "idle" /\ proc[1].exit = "failed"
    /\ decrypted.called
    /\ encrypted.text = tokens[1].token
    /\ decrypted.key # tokens[1].key
    /\ \E i \in 1..Len(returned) :
          returned[i].epoch = 1 /\ returned[i].key = decrypted.key

\* C20 (as stated): when two processes call get_or_create_master_key at the
\* same time and there is no key file, one key is created, both calls
\* return it, and the file holds it.
BothFinished ==
    /\ \A p \in Procs : proc[p].pc = "idle" /\ proc[p].exit = "ok"
    /\ commands = 2
C20_AsStated ==
    BothFinished =>
        /\ rng = 1
        /\ HoldsKey(key_file)
        /\ \A i \in 1..Len(returned) : returned[i].key = StoredKey.data

\* C21 (as stated): in no reachable state does the key file hold the key
\* while its mode is not yet owner-only.
C21_AsStated ==
    HoldsKey(key_file) => key_file.mode = OwnerOnly

\* C22: a call of get_or_create_master_key that finds a key file it cannot
\* read, cannot decode, or that does not decode to 32 bytes (the file another
\* process has created and not yet written included) ends with that one
\* read: it returns an error and no key, and leaves the file as it is, with
\* no new key generated.
KeyErrors ==
    {"Failed to read master key", "Invalid master key encoding",
     "Invalid master key size"}
C22_Step ==
    \A p \in Procs :
        (proc[p].pc = "read" /\ proc'[p] # proc[p] /\ ~HoldsKey(key_file)) =>
            /\ key_file' = key_file
            /\ returned' = returned
            /\ rng' = rng
            /\ \/ /\ proc[p].caller = "handle_secret"
                  /\ proc'[p].pc = "idle"
                  /\ proc'[p].exit = "failed"
                  /\ proc'[p].error \in KeyErrors
                  /\ proc'[p].master_key = NoKey
               \/ /\ proc[p].caller = "load_env_vars"
                  /\ proc'[p].pc = "load_env_vars"
                  /\ proc'[p].crypto = NoKey
C22_FailsSingleCall == [][C22_Step]_vars

\* C22 witness: secret remove read the file another process had created and
\* not yet written, and failed with the size error; the file is as it was.
C22_Witness ==
    \E p, q \in Procs :
        /\ proc[p].command = "remove" /\ proc[p].pc = "idle"
        /\ proc[p].exit = "failed"
        /\ proc[p].error = "Invalid master key size"
        /\ proc[q].pc = "write"
        /\ key_file.exists /\ key_file.content = <<>>
        /\ returned = <<>>

\* C23 (as stated): a password that starts with "enc:" is never what the
\* database connection is given.
C23_AsStated ==
    \A p \in Procs :
        proc[p].connected => ~starts_with(proc[p].credential, ENC_PREFIX)

(* ----------------------- claims about saved queries -------------------- *)

\* The names that occur in the text as :name, a name being a run of word
\* characters that is not continued on its right.
PlaceholderNames(text) ==
    {SubSeq(text, i + 1, j) : i \in 1..Len(text), j \in 1..Len(text)} \cap
    {name \in UNION {[1..n -> Chars] : n \in 1..Len(text)} :
        \E i \in 1..Len(text) :
            /\ text[i] = ":"
            /\ i + Len(name) <= Len(text)
            /\ SubSeq(text, i + 1, i + Len(name)) = name
            /\ \A k \in 1..Len(name) : IsWord(name[k])
            /\ (i + Len(name) = Len(text) \/ ~IsWord(text[i + Len(name) + 1]))}

\* C24: extract_params returns the names that occur in the text as :name,
\* each once, in ascending order, and the empty list when there is none.
C24_ExtractParams ==
    ret.done =>
        LET params == ret.value IN
        /\ {params[k] : k \in 1..Len(params)} = PlaceholderNames(call.sql)
        /\ \A k \in 1..(Len(params) - 1) : StringLess(params[k], params[k + 1])
        /\ PlaceholderNames(call.sql) = {} => params = <<>>

\* C24 witness: of ":a:B" the names came back as B, a.
C24_Witness ==
    /\ ret.done
    /\ call.sql = <<":", "a", ":", "B">>
    /\ ret.value = << <<"B">>, <<"a">> >>

\* C28: after any sequence of calls of get_or_create_master_key and
\* reset_master_key, one after the other, that starts without a key file or
\* with a valid one, the key file is absent or holds the base64 of 32 bytes;
\* a call of get_or_create_master_key that succeeded returned the key the
\* file holds; and reset_master_key succeeds and leaves no file, also when
\* there was none.
Finished(command) == proc[1].pc = "idle" /\ proc[1].command = command
C28_Sequential ==
    /\ proc[1].pc = "idle" => (~key_file.exists \/ HoldsKey(key_file))
    /\ (Finished("get_or_create_master_key") /\ proc[1].exit = "ok") =>
          (HoldsKey(key_file) /\ StoredKey.data = proc[1].master_key)
    /\ Finished("get_or_create_master_key") => proc[1].exit = "ok"
    /\ Finished("reset_master_key") =>
          (proc[1].exit = "ok" /\ ~key_file.exists)

\* C28 witness: three calls that started without a key file, among them one
\* get_or_create_master_key, which made the key, and two resets, one of them
\* of an absent key and the last of them leaving no file.
C28_Witness ==
    /\ commands = 3
    /\ resets = 1
    /\ Len(returned) = 1
    /\ returned[1].key = generate_key(0)
    /\ Finished("reset_master_key")
    /\ proc[1].exit = "ok"
    /\ ~key_file.exists

\* C30: every secret subcommand, secret reset included, calls
\* get_or_create_master_key first. Secret reset without a key file creates
\* a key and then deletes it, and ends with no key file; secret reset with
\* a corrupt key file fails with the error of the key before
\* reset_master_key is reached, and the file stays as it is.
InSecretAction ==
    proc[1].pc \in SecretCommands \cup {"remove_file", "get_password"}
C30_State ==
    /\ InSecretAction =>
          /\ proc[1].master_key # NoKey
          /\ \E i \in 1..Len(returned) : returned[i].key = proc[1].master_key
    /\ proc[1].pc \in {"reset", "remove_file"} =>
          /\ HoldsKey(key_file)
          /\ StoredKey.data = proc[1].master_key
          /\ proc[1].key # NoKey => proc[1].key = proc[1].master_key
    /\ (Finished("reset") /\ proc[1].exit = "ok") =>
          (~key_file.exists /\ resets > 0)
    /\ (Finished("reset") /\ proc[1].exit = "failed") =>
          /\ proc[1].error \in KeyErrors
          /\ proc[1].master_key = NoKey
          /\ key_file \in InitialKeyFiles
          /\ key_file.exists /\ ~HoldsKey(key_file)
C30_Step ==
    /\ (proc[1].command = "reset" /\ proc[1].pc = "exists" /\ ~key_file.exists) =>
          proc'[1].pc = "generate"
    /\ (proc[1].command = "reset" /\ proc[1].pc = "exists" /\ key_file.exists
           /\ ~HoldsKey(key_file)) =>
          proc'[1].pc = "read"
    /\ (proc[1].command = "reset" /\ proc[1].pc = "read" /\ ~HoldsKey(key_file)) =>
          (proc'[1].pc = "idle" /\ proc'[1].exit = "failed" /\ key_file' = key_file)
C30_KeyFirst == [](C30_State) /\ [][C30_Step]_vars

\* C30 witness: secret reset as the first command, without a key file: a key
\* was created and returned, and the command ended with no key file.
C30_Witness ==
    /\ commands = 1
    /\ Finished("reset") /\ proc[1].exit = "ok"
    /\ rng = 1
    /\ returned = <<[key |-> generate_key(0), epoch |-> 0]>>
    /\ proc[1].key = generate_key(0)
    /\ resets = 1
    /\ ~key_file.exists

(* ---------------------- claims about the configuration ----------------- *)

\* C29: when the master key cannot be obtained or the "enc:" password of the
\* profile cannot be decrypted, ApplicationConfig::load still succeeds,
\* reports nothing, and leaves the password as it was, the "enc:" value.
Loaded == proc[1].command = "load" /\ proc[1].pc \in {"connect", "idle"}
NotDecryptable ==
    /\ starts_with(password, ENC_PREFIX)
    /\ \/ proc[1].crypto = NoKey
       \/ ~decrypt(Crypto(proc[1].crypto), password).ok
C29_LoadSwallows ==
    (Loaded /\ NotDecryptable) =>
        /\ proc[1].exit # "failed"
        /\ proc[1].error = ""
        /\ proc[1].password = password
        /\ starts_with(proc[1].password, ENC_PREFIX)

\* C29 witness: the key file is no base64 and the profile's password is a
\* token: load returned, without a key, and the password is the token.
C29_Witness ==
    /\ Loaded
    /\ proc[1].pc = "connect"
    /\ key_file.content = <<33, 33, 33, 33>>
    /\ proc[1].crypto = NoKey
    /\ password = encrypt(Crypto(Keys[1]), <<112, 119>>, 7)
    /\ proc[1].password = password


\* m is the union of a and b by name, b's entry where both have one.
RightBiasedUnion(m, a, b) ==
    /\ DOMAIN m = DOMAIN a \cup DOMAIN b
    /\ \A n \in DOMAIN b : m[n] = b[n]
    /\ \A n \in DOMAIN a \ DOMAIN b : m[n] = a[n]
Merged == ret.value

\* C25 (as stated): merge(a, b) is the right-biased union of the profiles
\* and of the saved queries, and has b's default_profile and
\* cache_ttl_hours.
C25_AsStated ==
    ret.done =>
        /\ RightBiasedUnion(Merged.profiles, call.self.profiles,
                            call.other.profiles)
        /\ RightBiasedUnion(Merged.saved_queries, call.self.saved_queries,
                            call.other.saved_queries)
        /\ Merged.defaults.default_profile = call.other.defaults.default_profile
        /\ Merged.defaults.cache_ttl_hours = call.other.defaults.cache_ttl_hours

\* C25 (amended): merge(a, b) is the right-biased union of the profiles and
\* of the saved queries; it has b's default_profile unless that is empty and
\* b's cache_ttl_hours unless that is 0, and a's otherwise.
C25_RightBiased ==
    ret.done =>
        /\ RightBiasedUnion(Merged.profiles, call.self.profiles,
                            call.other.profiles)
        /\ RightBiasedUnion(Merged.saved_queries, call.self.saved_queries,
                            call.other.saved_queries)
        /\ Merged.defaults.default_profile =
              IF call.other.defaults.default_profile = ""
              THEN call.self.defaults.default_profile
              ELSE call.other.defaults.default_profile
        /\ Merged.defaults.cache_ttl_hours =
              IF call.other.defaults.cache_ttl_hours = 0
              THEN call.self.defaults.cache_ttl_hours
              ELSE call.other.defaults.cache_ttl_hours

\* C25 witness: both files have the profile "local" and the second one also
\* "production"; the second file's default_profile is empty and its
\* cache_ttl_hours is 48.
C25_Witness ==
    /\ ret.done
    /\ DOMAIN call.self.profiles = {"local"}
    /\ DOMAIN call.other.profiles = {"local", "production"}
    /\ DOMAIN call.self.saved_queries = {"production"}
    /\ DOMAIN call.other.saved_queries = {"local"}
    /\ Merged.profiles["local"].db_type = "mysql"
    /\ Merged.saved_queries["production"].sql = "SELECT 1"
    /\ call.other.defaults.default_profile = ""
    /\ Merged.defaults.default_profile = "staging"
    /\ Merged.defaults.cache_ttl_hours = 48

(* ------------------- more claims about the validator ------------------- *)

\* C26 (as stated): whenever validate() returns s for a batch of SELECTs,
\* validate(s) under the same policy returns s again: it neither fails nor
\* appends another LIMIT.
C26_AsStated ==
    (CalledOnBatch /\ AllSelect /\ R.ok) =>
        validate(TheValidator, R.sql) = Ok(R.sql)

\* C27: validate() checks in a fixed order: the parse, then the empty batch,
\* then the class and the allow-list of every statement in batch order, then
\* the limit policy. The error of a batch with an unsupported or disallowed
\* statement is that of the first such statement, and never LimitExceeded.
Offending == {i \in 1..Len(Stmts) : ~Classed(i) \/ Disallowed(i)}
FirstOffending == CHOOSE i \in Offending : \A j \in Offending : i <= j
C27_FixedOrder ==
    Called =>
        /\ ~Parsed.ok => R = Err(SyntaxErrorOf(Parsed))
        /\ (Parsed.ok /\ Stmts = <<>>) => R = Err(EmptyQuery)
        /\ (CalledOnBatch /\ Offending # {}) =>
              /\ ~R.ok
              /\ R.err.kind # "LimitExceeded"
              /\ R.err = IF Classed(FirstOffending)
                         THEN OperationNotAllowed(StmtType(Stmts[FirstOffending]),
                                                  Policy.allowed_operations)
                         ELSE UnsupportedStatement
        /\ (CalledOnBatch /\ Offending = {}) =>
              R.err.kind \in {"None", "LimitExceeded"}

\* C27 witness: two SELECTs, the first with a literal LIMIT above max_limit,
\* under a policy that does not allow SELECT: the error is that of the
\* allow-list.
C27_Witness ==
    /\ CalledOnBatch
    /\ Len(Stmts) = 2 /\ AllSelect
    /\ HasLiteralLimit(1) /\ ExceedsMax(LiteralLimit(1))
    /\ ~Permitted(SELECT)
    /\ Policy.allowed_operations # <<>>
    /\ R = Err(OperationNotAllowed(SELECT, Policy.allowed_operations))

====
